---- MODULE Spec2Model ----
(***************************************************************************)
(* Verification model of the certificate accumulator:                      *)
(* MerkleService (backend/src/services/MerkleService.js) on top of the     *)
(* merkletreejs MerkleTree class, as called by the /api/merkle routes.     *)
(*                                                                         *)
(* Values.  A Word stands for one 32-byte block (a SHA-256 digest sized    *)
(* value).  A Buffer is a sequence of Words.  A JavaScript string that is  *)
(* meant to hold hex is a sequence of tokens, one token per 64 characters: *)
(*   [k |-> "lc", w |-> n]   the lower-case hex spelling of Word n         *)
(*   [k |-> "uc", w |-> n]   the upper-case hex spelling of Word n         *)
(*   [k |-> "0x", w |-> 0]   the two characters "0x"                       *)
(*   [k |-> "zz", w |-> 0]   characters that are not hex digits            *)
(* and the value undefined is the one-token sequence UNDEFINED.            *)
(***************************************************************************)
EXTENDS Integers, Sequences, FiniteSets, TLC

VARIABLES cur, prev, op, args, res

vars == <<cur, prev, op, args, res>>

----------------------------------------------------------------------------
(* Bounds of the model *)

NumWords == 2      \* distinct 32-byte leaf values
MaxCerts == 3      \* longest certificate list handed to one call
MaxProof == 2      \* longest proof handed to verifyProof
MaxNewCerts == 2   \* longest list handed to addCertificatesToTree
MaxStoredLeaves == 2   \* longest altered leaf list of a backup
MaxBatches == 2    \* batches issued on the registry
MaxSessions == 2   \* workflow sessions created
MaxTime == 3       \* clock readings 0..MaxTime

----------------------------------------------------------------------------
(* JavaScript values *)

Words == 1..NumWords

LC(w) == <<[k |-> "lc", w |-> w]>>
UC(w) == <<[k |-> "uc", w |-> w]>>
OX == <<[k |-> "0x", w |-> 0]>>
ZZ == <<[k |-> "zz", w |-> 0]>>
EMPTY == <<>>
UNDEFINED == <<[k |-> "undefined", w |-> 0]>>

IsUndefined(s) == s = UNDEFINED

\* !s for a string-or-undefined value: undefined and '' are falsy
Falsy(s) == IsUndefined(s) \/ s = EMPTY

\* a returned value, or a thrown Error with its message
Ok(v) == [ok |-> TRUE, err |-> "", val |-> v]
Throw(e) == [ok |-> FALSE, err |-> e, val |-> <<>>]

\* an array-or-undefined argument
Arr(items) == [defined |-> TRUE, items |-> items]
NoArr == [defined |-> FALSE, items |-> <<>>]

ErrEmpty == "Cannot build Merkle tree from empty certificates array"
ErrMissingCommitment == "Certificate missing commitment hash"
ErrInvalidLeaves == "Invalid tree data: missing or invalid leaves"
ErrRootMismatch == "Tree reconstruction failed: root mismatch"
ErrType == "TypeError"
ErrHashArg == "TypeError [ERR_INVALID_ARG_TYPE]: The \"algorithm\" argument must be of type string"

\* Buffer.from(s, 'hex'): decodes hex digits up to the first character that
\* is not one; upper and lower case decode alike
RECURSIVE FromHex(_)
FromHex(s) ==
    IF s = <<>> THEN <<>>
    ELSE IF Head(s).k \in {"lc", "uc"} THEN <<Head(s).w>> \o FromHex(Tail(s))
    ELSE <<>>

\* buf.toString('hex'): always lower case
ToHex(buf) == [i \in 1..Len(buf) |-> [k |-> "lc", w |-> buf[i]]]

\* s.replace('0x', ''): removes the first occurrence only
RECURSIVE Replace0x(_)
Replace0x(s) ==
    IF s = <<>> THEN <<>>
    ELSE IF Head(s).k = "0x" THEN Tail(s)
    ELSE <<Head(s)>> \o Replace0x(Tail(s))

\* Buffer.compare(a, b): -1, 0 or 1, bytewise then by length
RECURSIVE BufferCompare(_, _)
BufferCompare(a, b) ==
    IF a = <<>> /\ b = <<>> THEN 0
    ELSE IF a = <<>> THEN -1
    ELSE IF b = <<>> THEN 1
    ELSE IF Head(a) < Head(b) THEN -1
    ELSE IF Head(a) > Head(b) THEN 1
    ELSE BufferCompare(Tail(a), Tail(b))

----------------------------------------------------------------------------
(* merkletreejs, as configured by MerkleService *)

\* The hash function handed to every MerkleTree is crypto.createHash itself.
\* merkletreejs wraps it (bufferifyFn) and calls it as f(value) with the
\* concatenated pair, a Buffer; crypto.createHash(algorithm) rejects an
\* algorithm that is not a string by throwing ERR_INVALID_ARG_TYPE.
hashFn(value) == Throw(ErrHashArg)

\* combined.sort(Buffer.compare) on a two-element array (sortPairs: true)
SortPair(left, right) ==
    IF BufferCompare(left, right) = 1 THEN <<right, left>> ELSE <<left, right>>

\* one pass of createHashes' for loop: the next layer of `nodes`.  With
\* duplicateOdd the last node of an odd layer is paired with itself.
NextLayer(nodes) ==
    LET n == Len(nodes)
        m == (n + 1) \div 2
        pair(j) == LET left == nodes[2 * j - 1]
                       right == IF 2 * j > n THEN left ELSE nodes[2 * j]
                       combined == SortPair(left, right)
                   IN hashFn(combined[1] \o combined[2])
        hs == [j \in 1..m |-> pair(j)]
        bad == {j \in 1..m : ~hs[j].ok}
    IN IF bad # {}
       THEN hs[CHOOSE j \in bad : \A k \in bad : j <= k]
       ELSE Ok([j \in 1..m |-> hs[j].val])

\* createHashes: layers[0] is the leaves; hash upward while a layer has
\* more than one node
RECURSIVE createHashes(_, _)
createHashes(nodes, layers) ==
    IF Len(nodes) <= 1 THEN Ok(layers)
    ELSE LET next == NextLayer(nodes)
         IN IF ~next.ok THEN next
            ELSE createHashes(next.val, Append(layers, next.val))

\* new MerkleTree(leaves, crypto.createHash,
\*                {hashLeaves: false, sortPairs: true, duplicateOdd: true})
MerkleTree(leaves) ==
    LET r == createHashes(leaves, <<leaves>>)
    IN IF r.ok THEN Ok([leaves |-> leaves, layers |-> r.val]) ELSE r

getLeaves(t) == t.leaves
getLayers(t) == t.layers

\* getRoot(): the first node of the top layer, or an empty Buffer
getRoot(t) ==
    LET top == t.layers[Len(t.layers)]
    IN IF Len(top) = 0 THEN <<>> ELSE top[1]

\* getProof's search: the index of the last leaf equal to `leaf`, or -1
LeafIndex(t, leaf) ==
    LET hits == {i \in 1..Len(t.leaves) : t.leaves[i] = leaf}
    IN IF hits = {} THEN -1
       ELSE (CHOOSE i \in hits : \A k \in hits : k <= i) - 1

\* getProof's loop over the layers, from layer i (1-based) with the node at
\* `index` (0-based); a sibling is pushed only when it exists in the layer
RECURSIVE ProofFrom(_, _, _)
ProofFrom(t, i, index) ==
    IF i > Len(t.layers) THEN <<>>
    ELSE LET layer == t.layers[i]
             isRightNode == index % 2 = 1
             pairIndex == IF isRightNode THEN index - 1 ELSE index + 1
             here == IF pairIndex < Len(layer)
                     THEN <<[position |-> IF isRightNode THEN "left" ELSE "right",
                             data |-> layer[pairIndex + 1]]>>
                     ELSE <<>>
         IN here \o ProofFrom(t, i + 1, index \div 2)

\* getProof(leaf): [] when the leaf is not in the tree
getProof(t, leaf) ==
    LET index == LeafIndex(t, leaf)
    IN IF index <= -1 THEN <<>> ELSE ProofFrom(t, 1, index)

\* tree.verify's loop from proof element i on, for {data, position} nodes
RECURSIVE VerifyFold(_, _, _, _)
VerifyFold(proof, i, hash, sortPairs) ==
    IF i > Len(proof) THEN Ok(hash)
    ELSE LET node == proof[i]
             isLeftNode == node.position = "left"
             buffers == IF sortPairs
                        THEN IF BufferCompare(hash, node.data) = -1
                             THEN <<hash, node.data>>
                             ELSE <<node.data, hash>>
                        ELSE IF isLeftNode
                             THEN <<node.data, hash>>
                             ELSE <<hash, node.data>>
             h == hashFn(buffers[1] \o buffers[2])
         IN IF ~h.ok THEN h ELSE VerifyFold(proof, i + 1, h.val, sortPairs)

\* MerkleTree.verify(proof, targetNode, root, crypto.createHash): the static
\* form builds an empty tree with default options, so sortPairs is false
StaticVerify(proof, targetNode, root) ==
    LET r == VerifyFold(proof, 1, targetNode, FALSE)
    IN IF ~r.ok THEN r ELSE Ok(BufferCompare(r.val, root) = 0)

----------------------------------------------------------------------------
(* MerkleService *)

Commitments(certificates) ==
    [i \in 1..Len(certificates) |-> certificates[i].commitment]

\* buildMerkleTree reading the leaf from the wrong field of the certificate
buildMerkleTreeWrongField(certificates) ==
    IF ~certificates.defined \/ Len(certificates.items) = 0
    THEN Throw(ErrEmpty)
    ELSE LET items == certificates.items
         IN IF \E i \in 1..Len(items) : Falsy(items[i].commitment)
            THEN Throw(ErrMissingCommitment)
            ELSE MerkleTree([i \in 1..Len(items) |-> FromHex(items[i].studentId)])

\* buildMerkleTree without its guard on an empty or missing array
buildMerkleTreeNoEmptyCheck(certificates) ==
    IF ~certificates.defined THEN Throw(ErrType)
    ELSE LET items == certificates.items
         IN IF \E i \in 1..Len(items) : Falsy(items[i].commitment)
            THEN Throw(ErrMissingCommitment)
            ELSE MerkleTree([i \in 1..Len(items) |-> FromHex(items[i].commitment)])

\* buildMerkleTree(certificates)
buildMerkleTree(certificates) ==
    IF ~certificates.defined \/ Len(certificates.items) = 0
    THEN Throw(ErrEmpty)
    ELSE LET items == certificates.items
         IN IF \E i \in 1..Len(items) : Falsy(items[i].commitment)
            THEN Throw(ErrMissingCommitment)
            ELSE MerkleTree([i \in 1..Len(items) |-> FromHex(items[i].commitment)])

\* generateMerkleProof(merkleTree, commitmentHash): the library's proof with
\* each sibling re-encoded as hex; Buffer.from(undefined, 'hex') throws
generateMerkleProof(merkleTree, commitmentHash) ==
    IF IsUndefined(commitmentHash) THEN Throw(ErrType)
    ELSE LET proof == getProof(merkleTree, FromHex(commitmentHash))
         IN Ok([i \in 1..Len(proof) |->
                  [kind |-> "object",
                   data |-> ToHex(proof[i].data),
                   position |-> proof[i].position]])

\* verifyProof(commitmentHash, proof, merkleRoot): every proof element is
\* expected to be a hex string (element.replace); each is given position
\* 'left'; whatever is thrown inside the try block becomes false
verifyProof(commitmentHash, proof, merkleRoot) ==
    IF IsUndefined(commitmentHash) \/ IsUndefined(merkleRoot) THEN FALSE
    ELSE IF \E i \in 1..Len(proof) : proof[i].kind # "string" THEN FALSE
    ELSE LET leaf == FromHex(commitmentHash)
             root == FromHex(Replace0x(merkleRoot))
             proofElements == [i \in 1..Len(proof) |->
                                 [data |-> FromHex(Replace0x(proof[i].data)),
                                  position |-> "left"]]
             r == StaticVerify(proofElements, leaf, root)
         IN IF r.ok THEN r.val ELSE FALSE

RECURSIVE TotalNodes(_)
TotalNodes(layers) ==
    IF layers = <<>> THEN 0 ELSE Len(Head(layers)) + TotalNodes(Tail(layers))

\* getTreeStats(merkleTree)
getTreeStats(merkleTree) ==
    [totalLeaves |-> Len(getLeaves(merkleTree)),
     treeDepth |-> Len(getLayers(merkleTree)) - 1,
     merkleRoot |-> ToHex(getRoot(merkleTree)),
     totalNodes |-> TotalNodes(getLayers(merkleTree))]

\* addCertificatesToTree(existingTree, newCertificates): no check of the
\* commitments; Buffer.from(undefined, 'hex') throws, '' is an empty leaf
addCertificatesToTree(existingTree, newCertificates) ==
    IF \E i \in 1..Len(newCertificates) : IsUndefined(newCertificates[i].commitment)
    THEN Throw(ErrType)
    ELSE LET existingLeaves == getLeaves(existingTree)
             newLeaves == [i \in 1..Len(newCertificates) |->
                             FromHex(newCertificates[i].commitment)]
         IN MerkleTree(existingLeaves \o newLeaves)

\* exportTreeData writing the root with a 0x prefix
exportTreeData0x(merkleTree, certificates) ==
    IF \E i \in 1..Len(certificates) : IsUndefined(certificates[i].commitment)
    THEN Throw(ErrType)
    ELSE Ok([merkleRoot |-> OX \o ToHex(getRoot(merkleTree)),
             leaves |-> Arr([i \in 1..Len(getLeaves(merkleTree)) |->
                               ToHex(getLeaves(merkleTree)[i])]),
             certificates |-> [i \in 1..Len(certificates) |->
                 [studentId |-> certificates[i].studentId,
                  commitment |-> certificates[i].commitment,
                  proof |-> generateMerkleProof(merkleTree,
                                                certificates[i].commitment).val]],
             metadata |-> [totalCertificates |-> Len(certificates),
                           createdAt |-> "now",
                           version |-> "1.0.0"]])

\* exportTreeData(merkleTree, certificates)
exportTreeData(merkleTree, certificates) ==
    IF \E i \in 1..Len(certificates) : IsUndefined(certificates[i].commitment)
    THEN Throw(ErrType)
    ELSE Ok([merkleRoot |-> ToHex(getRoot(merkleTree)),
             leaves |-> Arr([i \in 1..Len(getLeaves(merkleTree)) |->
                               ToHex(getLeaves(merkleTree)[i])]),
             certificates |-> [i \in 1..Len(certificates) |->
                 [studentId |-> certificates[i].studentId,
                  commitment |-> certificates[i].commitment,
                  proof |-> generateMerkleProof(merkleTree,
                                                certificates[i].commitment).val]],
             metadata |-> [totalCertificates |-> Len(certificates),
                           createdAt |-> "now",
                           version |-> "1.0.0"]])

\* importTreeData without the comparison of the two roots
importTreeDataNoCheck(treeData) ==
    IF ~treeData.leaves.defined THEN Throw(ErrInvalidLeaves)
    ELSE LET items == treeData.leaves.items
             leaves == [i \in 1..Len(items) |-> FromHex(items[i])]
         IN MerkleTree(leaves)

\* importTreeData(treeData)
importTreeData(treeData) ==
    IF ~treeData.leaves.defined THEN Throw(ErrInvalidLeaves)
    ELSE LET items == treeData.leaves.items
             leaves == [i \in 1..Len(items) |-> FromHex(items[i])]
             reconstructedTree == MerkleTree(leaves)
         IN IF ~reconstructedTree.ok THEN reconstructedTree
            ELSE IF ToHex(getRoot(reconstructedTree.val)) # treeData.merkleRoot
            THEN Throw(ErrRootMismatch)
            ELSE reconstructedTree

----------------------------------------------------------------------------
(* Inputs of the calls *)

Cert(id, c) == [studentId |-> id, commitment |-> c]

\* "student_0" (no hex digit in front) and an all-digit id
StudentIds == {ZZ, LC(1)}

PlainCommitments == {LC(w) : w \in Words}

SpecialCommitments == {UC(1), ZZ, EMPTY, UNDEFINED}

\* lists of well-formed commitments, every certificate with the same kind of id
PlainLists ==
    UNION {{[i \in 1..k |-> Cert(id, f[i])] : id \in StudentIds,
                                             f \in [1..k -> PlainCommitments]} :
           k \in 0..MaxCerts}

\* lists with one unusual commitment, alone or after a well-formed one
SpecialLists ==
    {<<Cert(ZZ, c)>> : c \in SpecialCommitments}
        \cup {<<Cert(ZZ, LC(1)), Cert(ZZ, c)>> : c \in SpecialCommitments}

CertificateLists == PlainLists \cup SpecialLists

NewCertificateLists ==
    {l \in CertificateLists :
        Len(l) <= MaxNewCerts /\ \A i \in 1..Len(l) : l[i].studentId = ZZ}

SeqsUpTo(S, n) == UNION {[1..k -> S] : k \in 0..n}

\* an injective stand-in for SHA-256 on a pair of Words, used to name the
\* digests a caller may present as a root
PairWord(a, b) == NumWords + ((a + b) * (a + b + 1)) \div 2 + b

Sha256(value) ==
    IF Len(value) = 2 THEN <<PairWord(value[1], value[2])>> ELSE <<0>>

RootWords == Words \cup {PairWord(a, b) : a, b \in Words}

RootInputs == {LC(w) : w \in RootWords} \cup {OX \o LC(1), UC(1), EMPTY, UNDEFINED}

StringElement(s) == [kind |-> "string", data |-> s, position |-> "none"]
ObjectElement(s, p) == [kind |-> "object", data |-> s, position |-> p]

ProofElements ==
    {StringElement(LC(w)) : w \in Words}
        \cup {StringElement(OX \o LC(1)), ObjectElement(LC(1), "right")}

ProofInputs == SeqsUpTo(ProofElements, MaxProof)

TargetInputs == PlainCommitments \cup {UC(1), ZZ, UNDEFINED}

LeafStrings == PlainCommitments \cup {UC(1), ZZ}

StoredRootInputs == PlainCommitments \cup {UC(1), OX \o LC(1), EMPTY, UNDEFINED}

VerifyInputs ==
    [commitmentHash : TargetInputs, proof : ProofInputs, merkleRoot : RootInputs]

----------------------------------------------------------------------------
(* State: the tree a caller holds (cur), the one held before the last call  *)
(* (prev), and the last call with its arguments and outcome                 *)

NoTree ==
    [has |-> FALSE, by |-> "none",
     tree |-> [leaves |-> <<>>, layers |-> <<>>], certs |-> <<>>]

Held(t, certificates, by) ==
    [has |-> TRUE, by |-> by, tree |-> t, certs |-> certificates]

BlankTreeData ==
    [merkleRoot |-> EMPTY, leaves |-> Arr(<<>>), certificates |-> <<>>,
     metadata |-> [totalCertificates |-> 0, createdAt |-> "now", version |-> "1.0.0"]]

\* the export of the held tree, when there is one
HeldExport ==
    LET e == exportTreeData(cur.tree, cur.certs)
    IN IF cur.has /\ e.ok THEN e.val ELSE BlankTreeData

\* a backup as it may come back: intact, with the root altered, with the
\* leaves altered, or with both replaced by a short list and some root
TreeDataInputs ==
    {HeldExport}
        \cup {[HeldExport EXCEPT !.merkleRoot = r] : r \in StoredRootInputs}
        \cup {[HeldExport EXCEPT !.leaves = l] :
                 l \in {NoArr} \cup {Arr(x) : x \in SeqsUpTo(PlainCommitments, MaxStoredLeaves)}}
        \cup {[HeldExport EXCEPT !.merkleRoot = r, !.leaves = Arr(x)] :
                 r \in StoredRootInputs, x \in SeqsUpTo(LeafStrings, 1)}

Init ==
    /\ cur = NoTree
    /\ prev = NoTree
    /\ op = "none"
    /\ args = <<>>
    /\ res = Ok(<<>>)

\* POST /build-tree
BuildTree(certificates) ==
    LET r == buildMerkleTree(certificates)
    IN /\ op' = "buildMerkleTree"
       /\ args' = [certificates |-> certificates]
       /\ res' = r
       /\ cur' = IF r.ok THEN Held(r.val, certificates.items, "build") ELSE cur
       /\ prev' = cur

\* POST /generate-proof, on the held tree
GenerateProof(commitmentHash) ==
    /\ cur.has
    /\ op' = "generateMerkleProof"
    /\ args' = [commitmentHash |-> commitmentHash]
    /\ res' = generateMerkleProof(cur.tree, commitmentHash)
    /\ cur' = cur
    /\ prev' = cur

\* POST /verify-proof
VerifyProof(commitmentHash, proof, merkleRoot) ==
    /\ op' = "verifyProof"
    /\ args' = [commitmentHash |-> commitmentHash, proof |-> proof,
                merkleRoot |-> merkleRoot]
    /\ res' = Ok(verifyProof(commitmentHash, proof, merkleRoot))
    /\ cur' = cur
    /\ prev' = cur

\* the proof just generated, handed to verifyProof with the held tree's root
VerifyGenerated ==
    /\ op = "generateMerkleProof"
    /\ res.ok
    /\ VerifyProof(args.commitmentHash, res.val, ToHex(getRoot(cur.tree)))

\* getTreeStats on the held tree
GetTreeStats ==
    /\ cur.has
    /\ op' = "getTreeStats"
    /\ args' = <<>>
    /\ res' = Ok(getTreeStats(cur.tree))
    /\ cur' = cur
    /\ prev' = cur

\* addCertificatesToTree on the held tree
AddCertificates(newCertificates) ==
    LET r == addCertificatesToTree(cur.tree, newCertificates)
    IN /\ cur.has
       /\ op' = "addCertificatesToTree"
       /\ args' = [newCertificates |-> newCertificates]
       /\ res' = r
       /\ cur' = IF r.ok THEN Held(r.val, cur.certs \o newCertificates, "add") ELSE cur
       /\ prev' = cur

\* POST /export-tree, on the held tree and its certificates
ExportTree ==
    /\ cur.has
    /\ op' = "exportTreeData"
    /\ args' = <<>>
    /\ res' = exportTreeData(cur.tree, cur.certs)
    /\ cur' = cur
    /\ prev' = cur

\* POST /import-tree
ImportTree(treeData) ==
    LET r == importTreeData(treeData)
    IN /\ op' = "importTreeData"
       /\ args' = [treeData |-> treeData]
       /\ res' = r
       /\ cur' = IF r.ok THEN Held(r.val, <<>>, "import") ELSE cur
       /\ prev' = cur

Next ==
    \/ \E c \in CertificateLists : BuildTree(Arr(c))
    \/ BuildTree(NoArr)
    \/ \E t \in TargetInputs : GenerateProof(t)
    \/ VerifyGenerated
    \/ GetTreeStats
    \/ \E c \in NewCertificateLists : AddCertificates(c)
    \/ ExportTree
    \/ \E d \in TreeDataInputs : ImportTree(d)

Spec == Init /\ [][Next]_vars

\* verifyProof as a function of its three arguments: the arguments are drawn
\* in the initial state and one call is made
InitVerify ==
    /\ cur = NoTree
    /\ prev = NoTree
    /\ op = "none"
    /\ args \in VerifyInputs
    /\ res = Ok(<<>>)

VerifyCall ==
    /\ op = "none"
    /\ VerifyProof(args.commitmentHash, args.proof, args.merkleRoot)

NextVerify == VerifyCall

SpecVerify == InitVerify /\ [][NextVerify]_vars

----------------------------------------------------------------------------
(* Properties *)

\* a present, non-empty list whose commitments are all well-formed digests
WellFormed(certificates) ==
    /\ certificates.defined
    /\ Len(certificates.items) >= 1
    /\ \A i \in 1..Len(certificates.items) :
          certificates.items[i].commitment \in PlainCommitments

LeafSet(t) == {getLeaves(t)[i] : i \in 1..Len(getLeaves(t))}

\* a held tree that buildMerkleTree made from a well-formed list
BuiltFromWellFormed(h) == h.has /\ h.by = "build" /\ WellFormed(Arr(h.certs))

\* C1: for every non-empty list of commitments and every leaf of it, the
\* tree is built, and the proof generated for the leaf, handed with the leaf
\* and the tree's root to verifyProof, is accepted
C1_ProofRoundTrip ==
    /\ (op = "buildMerkleTree" /\ WellFormed(args.certificates)) => res.ok
    /\ (/\ op = "verifyProof"
        /\ BuiltFromWellFormed(cur)
        /\ ~IsUndefined(args.commitmentHash)
        /\ FromHex(args.commitmentHash) \in LeafSet(cur.tree)
        /\ args.proof = generateMerkleProof(cur.tree, args.commitmentHash).val
        /\ args.merkleRoot = ToHex(getRoot(cur.tree)))
       => res.val = TRUE

\* the path recomputed bottom-up with the rule the tree is built with: sort
\* the pair, hash the concatenation
RECURSIVE FoldSorted(_, _)
FoldSorted(hash, siblings) ==
    IF siblings = <<>> THEN hash
    ELSE LET combined == SortPair(hash, Head(siblings))
         IN FoldSorted(Sha256(combined[1] \o combined[2]), Tail(siblings))

HexProof(proof) ==
    \A i \in 1..Len(proof) :
        proof[i].kind = "string" /\ proof[i].data \in PlainCommitments

\* C2: verifyProof(leaf, proof, root) is true exactly when folding the
\* siblings onto the leaf with sort-then-hash gives root
C2_VerifyIffSortedFold ==
    (/\ op = "verifyProof"
     /\ args.commitmentHash \in PlainCommitments
     /\ HexProof(args.proof)
     /\ args.merkleRoot \in {LC(w) : w \in RootWords})
    => (res.val = TRUE <=>
          FoldSorted(FromHex(args.commitmentHash),
                     [i \in 1..Len(args.proof) |-> FromHex(args.proof[i].data)])
            = FromHex(args.merkleRoot))

\* two consecutive builds from lists that carry the same commitments
SameCommitmentsRebuilt ==
    /\ op = "buildMerkleTree"
    /\ prev.has
    /\ prev.by = "build"
    /\ args.certificates.defined
    /\ Commitments(args.certificates.items) = Commitments(prev.certs)

ImportOfOwnExport ==
    /\ op = "importTreeData"
    /\ prev.has
    /\ prev.by = "build"
    /\ Len(prev.certs) >= 1
    /\ exportTreeData(prev.tree, prev.certs).ok
    /\ args.treeData = exportTreeData(prev.tree, prev.certs).val

Reconstructed(treeData) ==
    MerkleTree([i \in 1..Len(treeData.leaves.items) |->
                  FromHex(treeData.leaves.items[i])])

RootDiffers(treeData) ==
    /\ treeData.leaves.defined
    /\ Reconstructed(treeData).ok
    /\ ToHex(getRoot(Reconstructed(treeData).val)) # treeData.merkleRoot

\* C5: importTreeData never returns a tree whose root is not the stored
\* merkleRoot; when the root it re-derives differs from the stored one it
\* throws the root-mismatch error and no tree is taken over
C5_ImportRejectsRootMismatch ==
    op = "importTreeData"
    => /\ res.ok => ToHex(getRoot(res.val)) = args.treeData.merkleRoot
       /\ RootDiffers(args.treeData)
          => (~res.ok /\ res.err = ErrRootMismatch /\ cur = prev)

C5_Witness ==
    /\ op = "importTreeData"
    /\ RootDiffers(args.treeData)
    /\ Len(args.treeData.leaves.items) >= 1
    /\ res.err = ErrRootMismatch

\* C6: for a tree built from a list of certificates and any list of new
\* certificates, addCertificatesToTree gives a tree whose leaves are the existing
\* leaves followed by the new ones and whose root is that of buildMerkleTree
\* over the concatenated list
C6_AddIsRebuild ==
    (/\ op = "addCertificatesToTree"
     /\ BuiltFromWellFormed(prev)
     /\ \A i \in 1..Len(args.newCertificates) :
           args.newCertificates[i].commitment \in PlainCommitments)
    => LET newLeaves == [i \in 1..Len(args.newCertificates) |->
                           FromHex(args.newCertificates[i].commitment)]
           allLeaves == getLeaves(prev.tree) \o newLeaves
           rebuilt == buildMerkleTree(
                          Arr([i \in 1..Len(allLeaves) |-> Cert(ZZ, ToHex(allLeaves[i]))]))
       IN /\ res.ok
          /\ getLeaves(res.val) = allLeaves
          /\ rebuilt.ok
          /\ getRoot(res.val) = getRoot(rebuilt.val)

EmptyOrMissing(certificates) ==
    ~certificates.defined \/ Len(certificates.items) = 0

\* C7: buildMerkleTree on an empty or missing list throws and produces no
\* tree and no root
C7_EmptyBuildFails ==
    (op = "buildMerkleTree" /\ EmptyOrMissing(args.certificates))
    => (~res.ok /\ res.err = ErrEmpty /\ cur = prev)

C7_Witness ==
    /\ op = "buildMerkleTree"
    /\ args.certificates = Arr(<<>>)
    /\ res.err = ErrEmpty

\* C8: generateMerkleProof for a commitment that is not a leaf of the tree
\* fails; it returns no proof
C8_AbsentTargetFails ==
    (/\ op = "generateMerkleProof"
     /\ BuiltFromWellFormed(cur)
     /\ ~IsUndefined(args.commitmentHash)
     /\ FromHex(args.commitmentHash) \notin LeafSet(cur.tree))
    => ~res.ok

RECURSIVE CeilLog2(_)
CeilLog2(n) == IF n <= 1 THEN 0 ELSE 1 + CeilLog2((n + 1) \div 2)

\* C9: a tree built from n >= 1 leaves reports depth ceil(log2(n)) and the
\* proof of every leaf has that many elements
C9_DepthAndProofLength ==
    (op = "buildMerkleTree" /\ WellFormed(args.certificates))
    => LET n == Len(args.certificates.items)
       IN /\ res.ok
          /\ getTreeStats(res.val).treeDepth = CeilLog2(n)
          /\ \A i \in 1..n :
                Len(generateMerkleProof(res.val,
                        args.certificates.items[i].commitment).val) = CeilLog2(n)

\* C10: the root over an odd number (three or more) of nodes is the root
\* over the same nodes with the last one appended once more
C10_OddLastDuplicated ==
    (/\ op = "buildMerkleTree"
     /\ WellFormed(args.certificates)
     /\ Len(args.certificates.items) >= 3
     /\ Len(args.certificates.items) % 2 = 1)
    => LET items == args.certificates.items
           padded == buildMerkleTree(Arr(Append(items, items[Len(items)])))
       IN /\ res.ok
          /\ padded.ok
          /\ getRoot(res.val) = getRoot(padded.val)

\* the same two certificates in the other order
Swapped(items) == <<items[2], items[1]>>

\* C11: the two members of a sibling pair may be exchanged without changing
\* the root: a list of two commitments and the same list in the other order
\* are both built, with the same root
C11_SiblingSwapKeepsRoot ==
    (/\ op = "buildMerkleTree"
     /\ WellFormed(args.certificates)
     /\ Len(args.certificates.items) = 2)
    => LET swapped == buildMerkleTree(Arr(Swapped(args.certificates.items)))
       IN /\ res.ok
          /\ swapped.ok
          /\ getRoot(res.val) = getRoot(swapped.val)

----------------------------------------------------------------------------
(* Commitments: SHA-256 over a string assembled from a record               *)
(*                                                                         *)
(* The strings the model hashes are assembled from a few atoms: student    *)
(* ids, salts and grades.  A grade is a JavaScript number; its decimal     *)
(* spelling stands for it inside a string.                                 *)

\* a record carries five subject grades
nSubjects == 5

IdList == <<"STU001", "STU002">>
SaltList == <<"salt_a", "salt_b">>
GradeList == <<-156, -155, -1, 0, 39, 40, 41, 85, 87, 88, 90, 92, 100, 101, 356, 357>>

IndexOf(list, x) == CHOOSE i \in 1..Len(list) : list[i] = x

RECURSIVE DigitsCode(_, _)
DigitsCode(digits, base) ==
    IF digits = <<>> THEN 0
    ELSE Head(digits) + base * DigitsCode(Tail(digits), base)

\* [a, b, ...c].join('|') for the ids and salts of IdList and SaltList, none
\* of which contains '|': the atoms in order (join, further down, is the
\* joining of strings character by character)
Join(studentId, salt, subjects) ==
    [fmt |-> "join", studentId |-> studentId, salt |-> salt, subjects |-> subjects]

JoinCode(data) ==
    (IndexOf(IdList, data.studentId) - 1)
        + Len(IdList) * ((IndexOf(SaltList, data.salt) - 1)
        + Len(SaltList) * DigitsCode([i \in 1..Len(data.subjects) |->
                                        IndexOf(GradeList, data.subjects[i]) - 1],
                                     Len(GradeList)))

\* the number of joined strings of the model
JoinCodes ==
    Len(IdList) * Len(SaltList)
        * DigitsCode([i \in 1..(nSubjects + 1) |-> IF i = nSubjects + 1 THEN 1 ELSE 0],
                     Len(GradeList))

\* the readings of the clock (new Date().toISOString())
TimeList == <<"2024-05-15T10:00:00.000Z", "2024-05-15T10:00:01.000Z">>

\* JSON.stringify(obj) of the object the workflow hashes; its name, email,
\* course and grade are the same in every record of the model
JsonStringify(obj) == [fmt |-> "json", obj |-> obj]

JsonCode(data) ==
    (IndexOf(IdList, data.obj.studentId) - 1)
        + Len(IdList) * (IndexOf(TimeList, data.obj.timestamp) - 1)

\* crypto.createHash('sha256').update(data).digest('hex'): an injective
\* stand-in on the strings of the model, spelled in lower-case hex
sha256hex(data) ==
    LC(NumWords + 1
         + (IF data.fmt = "join" THEN JoinCode(data) ELSE JoinCodes + JsonCode(data)))

----------------------------------------------------------------------------
(* circomlib templates, as instantiated by certificate.circom               *)
(*                                                                         *)
(* A signal is an element of the BN254 scalar field F_p.  The model writes *)
(* the elements near 0 as integers: k for k, and -k for p - k.  Every sum  *)
(* formed below stays far from p/2, so integer arithmetic on these         *)
(* representatives is the field's arithmetic.                              *)

GradeBits == 8
MaxGrade == 100

RECURSIVE Pow2(_)
Pow2(n) == IF n = 0 THEN 1 ELSE 2 * Pow2(n - 1)

\* LessThan(n): n2b = Num2Bits(n+1); n2b.in <== in[0] + (1<<n) - in[1];
\* out <== 1 - n2b.out[n].  Num2Bits(n+1) constrains its input to be a sum
\* of n+1 bits, so the template is satisfiable only when the shifted
\* difference lies in 0 .. 2^(n+1) - 1
LessThan(n, a, b) ==
    LET v == a + Pow2(n) - b
        sat == v >= 0 /\ v < Pow2(n + 1)
    IN [sat |-> sat, out |-> IF sat THEN 1 - ((v \div Pow2(n)) % 2) ELSE 0]

\* LessEqThan(n): LessThan(n) on in[0], in[1] + 1
LessEqThan(n, a, b) == LessThan(n, a, b + 1)

\* GreaterEqThan(n): LessThan(n) on in[1], in[0] + 1
GreaterEqThan(n, a, b) == LessThan(n, b, a + 1)

\* gates.circom
AND(a, b) == a * b
OR(a, b) == a + b - a * b
NOT(in) == 1 + in - 2 * in

\* the field elements that stand for strings lie above every grade
StringBase == Pow2(GradeBits + 2)

\* the position of a signal among the signals of the model
SignalIndex(x) ==
    IF x > StringBase THEN Len(GradeList) + (x - StringBase) - 1
    ELSE IndexOf(GradeList, x) - 1

\* Poseidon(nInputs): a hash to a field element, which snarkjs spells in
\* decimal: an injective stand-in on the signals of the model
Poseidon(inputs) ==
    <<[k |-> "dec",
       w |-> DigitsCode([i \in 1..Len(inputs) |-> SignalIndex(inputs[i])],
                        Len(GradeList) + Len(IdList) + Len(SaltList))]>>

----------------------------------------------------------------------------
(* certificate.circom                                                      *)

\* template FinalValidation: out = merkleValid AND
\*                                 (NOT requireAllPassed OR
\*                                  (requireAllPassed AND allPassed))
FinalValidation(merkleValid, allPassed, requireAllPassed) ==
    AND(merkleValid, OR(NOT(requireAllPassed), AND(requireAllPassed, allPassed)))

\* gradeChecks with the two inputs of each comparator exchanged
gradeChecksSwapped(subjects, minPassingGrade) ==
    [i \in 1..nSubjects |-> GreaterEqThan(GradeBits, minPassingGrade, subjects[i])]

\* gradeChecks[i] = GreaterEqThan(8) on subjects[i], minPassingGrade
gradeChecks(subjects, minPassingGrade) ==
    [i \in 1..nSubjects |-> GreaterEqThan(GradeBits, subjects[i], minPassingGrade)]

\* rangeCheck = LessEqThan(8) on subjects[i], 100, one per subject
rangeCheck(subjects) ==
    [i \in 1..nSubjects |-> LessEqThan(GradeBits, subjects[i], MaxGrade)]

\* andGates[i]: the AND of gradeChecks[0..i+1].out
RECURSIVE andGates(_, _)
andGates(outs, i) ==
    IF i = 0 THEN AND(outs[1], outs[2])
    ELSE AND(andGates(outs, i - 1), outs[i + 2])

\* template CertificateVerifier(nSubjects), the main component: whether the
\* constraints can be satisfied with these inputs, and the two outputs
CertificateVerifier(in) ==
    LET checks == gradeChecks(in.subjects, in.minPassingGrade)
        ranges == rangeCheck(in.subjects)
        allPassedSignal ==
            IF nSubjects = 1 THEN checks[1].out
            ELSE andGates([i \in 1..nSubjects |-> checks[i].out], nSubjects - 2)
        notRequired == NOT(in.requireAllPassed)
        requiredAndPassed == AND(in.requireAllPassed, allPassedSignal)
        finalCheck == OR(notRequired, requiredAndPassed)
    IN [sat |-> \A i \in 1..nSubjects :
                   checks[i].sat /\ ranges[i].sat /\ ranges[i].out = 1,
        isValid |-> finalCheck,
        commitment |-> Poseidon(<<in.studentId, in.salt>> \o in.subjects)]

----------------------------------------------------------------------------
(* ZKProofService and POST /api/zkproofs/generate                          *)

ErrWasmMissing == "Circuit WASM file not found. Please compile the circuit first."
ErrZkeyMissing == "Circuit proving key not found. Please setup the proving system first."
ErrAssertFailed == "Assert Failed. Error in template CertificateVerifier"

\* `Failed to generate ZK proof: ${error.message}`
FailedToGenerate(message) == <<"Failed to generate ZK proof: ", message>>

\* stringToFieldElement(str): SHA-256 of the string, reduced modulo p; an
\* injective stand-in on the strings of the model
stringToFieldElement(str) == StringBase + IndexOf(IdList \o SaltList, str)

\* calculateCommitment(input)
calculateCommitment(input) ==
    sha256hex(Join(input.studentId, input.salt, input.subjects))

\* prepareCircuitInputs(rawInput): the commitment it computes is not used,
\* and no Merkle root, proof or batch id is passed on
prepareCircuitInputs(rawInput) ==
    [studentId |-> stringToFieldElement(rawInput.studentId),
     subjects |-> rawInput.subjects,
     salt |-> stringToFieldElement(rawInput.salt),
     minPassingGrade |-> rawInput.minPassingGrade,
     requireAllPassed |-> IF rawInput.requireAllPassed THEN 1 ELSE 0]

\* a coordinate of a proof point, as the decimal string snarkjs prints: it
\* is determined by the proving key, the statement proved and the blinding
\* scalars the prover drew
Coord(name, zkeyVersion, publicSignals, rnd) == <<name, zkeyVersion, publicSignals, rnd>>

\* the strings "1" and "0" of the projective coordinates
One == <<"1">>
Zero == <<"0">>

\* the proof object snarkjs.groth16.prove returns: it draws the blinding
\* scalars r and s at random in every call
SnarkProof(zkeyVersion, publicSignals, rnd) ==
    LET c(name) == Coord(name, zkeyVersion, publicSignals, rnd)
    IN [pi_a |-> <<c("a0"), c("a1"), One>>,
        pi_b |-> <<<<c("b00"), c("b01")>>, <<c("b10"), c("b11")>>, <<One, Zero>>>>,
        pi_c |-> <<c("c0"), c("c1"), One>>,
        protocol |-> "groth16"]

\* formatProofForSolidity(proof)
formatProofForSolidity(proof) ==
    [a |-> <<proof.pi_a[1], proof.pi_a[2]>>,
     b |-> <<<<proof.pi_b[1][2], proof.pi_b[1][1]>>,
             <<proof.pi_b[2][2], proof.pi_b[2][1]>>>>,
     c |-> <<proof.pi_c[1], proof.pi_c[2]>>]

\* snarkjs.groth16.fullProve(circuitInputs, wasmPath, zkeyPath): the witness
\* is computed first, and a constraint that fails makes it throw; the
\* public signals are the outputs followed by the public inputs
fullProve(circuitInputs, zkeyVersion, rnd) ==
    LET w == CertificateVerifier(circuitInputs)
        publicSignals == <<w.isValid, w.commitment, circuitInputs.minPassingGrade,
                           circuitInputs.requireAllPassed>>
    IN IF ~w.sat THEN Throw(ErrAssertFailed)
       ELSE Ok([proof |-> SnarkProof(zkeyVersion, publicSignals, rnd),
                publicSignals |-> publicSignals])

\* generateProof whose catch block drops the message of what it caught
generateProofNoMessage(input, files) ==
    IF ~files.wasmExists \/ ~files.zkeyExists
    THEN Throw(FailedToGenerate(""))
    ELSE LET r == fullProve(prepareCircuitInputs(input), files.zkeyVersion, files.rnd)
         IN IF ~r.ok THEN Throw(FailedToGenerate(""))
            ELSE Ok([proof |-> formatProofForSolidity(r.val.proof),
                     publicSignals |-> r.val.publicSignals,
                     commitment |-> calculateCommitment(input)])

\* generateProof(input), with the files that exist on disk, the version of
\* the proving key among them, and the randomness the prover draws in the
\* call
generateProof(input, files) ==
    IF ~files.wasmExists THEN Throw(FailedToGenerate(ErrWasmMissing))
    ELSE IF ~files.zkeyExists THEN Throw(FailedToGenerate(ErrZkeyMissing))
    ELSE LET r == fullProve(prepareCircuitInputs(input), files.zkeyVersion, files.rnd)
         IN IF ~r.ok THEN Throw(FailedToGenerate(r.err))
            ELSE Ok([proof |-> formatProofForSolidity(r.val.proof),
                     publicSignals |-> r.val.publicSignals,
                     commitment |-> calculateCommitment(input)])

\* proofSchema.validate(req.body): five grades in [0,100], a threshold in
\* [0,100]
proofSchemaError(body) ==
    \/ \E i \in 1..Len(body.subjects) : body.subjects[i] < 0 \/ body.subjects[i] > 100
    \/ Len(body.subjects) # 5
    \/ body.minPassingGrade < 0
    \/ body.minPassingGrade > 100

\* an HTTP response
Response(status, error, message, data) ==
    [ok |-> status = 200, status |-> status, error |-> error, err |-> message,
     val |-> data]

\* the handler of POST /api/zkproofs/generate
postGenerate(body, files) ==
    IF proofSchemaError(body)
    THEN Response(400, "Validation Error", <<>>, <<>>)
    ELSE LET proofData == generateProof(body, files)
         IN IF proofData.ok
            THEN Response(200, "", <<>>, proofData.val)
            ELSE Response(500, "ZK Proof Generation Failed", proofData.err, <<>>)

----------------------------------------------------------------------------
(* Proof generation as a function of the request and of the files on disk:  *)
(* both are drawn in the initial state; a call is made, and may be repeated *)
(* with another threshold                                                  *)

ExampleSubjects == <<88, 92, 85, 90, 87>>

Uniform(h) == [i \in 1..nSubjects |-> h]

GradeValues == {GradeList[i] : i \in 1..Len(GradeList)}

\* the example, and lists with one grade that differs from the others
SubjectVectors ==
    {ExampleSubjects}
        \cup {[Uniform(h) EXCEPT ![i] = g] :
                 h \in {40, 100}, i \in {1, nSubjects}, g \in GradeValues}

Thresholds == {0, 40, 41, 90, 100, 101, 357}

RawInputs ==
    [studentId : {IdList[i] : i \in 1..Len(IdList)},
     subjects : SubjectVectors,
     salt : {SaltList[1]},
     minPassingGrade : Thresholds,
     requireAllPassed : BOOLEAN,
     merkleProof : {<<>>}]

\* the root of the published batch: a batch of the one record of STU001 with
\* the example grades
PublishedRoot ==
    calculateCommitment([studentId |-> IdList[1], salt |-> SaltList[1],
                         subjects |-> ExampleSubjects])

\* (one proving key, one draw of the blinding: the proof's content is the
\* subject of SpecZK)
Files ==
    [wasmExists : BOOLEAN, zkeyExists : BOOLEAN, merkleRoot : {PublishedRoot},
     zkeyVersion : {1}, rnd : {1}]

NoCall == [called |-> FALSE, args |-> <<>>, res |-> Ok(<<>>)]
Called(a, r) == [called |-> TRUE, args |-> a, res |-> r]

InitProof ==
    /\ cur \in Files
    /\ prev = NoCall
    /\ op = "none"
    /\ args \in RawInputs
    /\ res = Ok(<<>>)

\* ZKProofService.generateProof(input), called directly
GenerateZKProof ==
    /\ op = "none"
    /\ op' = "generateProof"
    /\ res' = generateProof(args, cur)
    /\ UNCHANGED <<cur, prev, args>>

\* the same call once more, with another threshold
GenerateAgain(minPassingGrade) ==
    /\ op = "generateProof"
    /\ ~prev.called
    /\ args' = [args EXCEPT !.minPassingGrade = minPassingGrade]
    /\ res' = generateProof(args', cur)
    /\ prev' = Called(args, res)
    /\ UNCHANGED <<cur, op>>

\* POST /api/zkproofs/generate
PostGenerate ==
    /\ op = "none"
    /\ op' = "POST /api/zkproofs/generate"
    /\ res' = postGenerate(args, cur)
    /\ UNCHANGED <<cur, prev, args>>

NextProof ==
    \/ GenerateZKProof
    \/ \E t \in Thresholds : GenerateAgain(t)
    \/ PostGenerate

SpecProof == InitProof /\ [][NextProof]_vars

----------------------------------------------------------------------------
(* CertificateService.calculateAcademicMetrics                             *)

\* Math.round(x / y) for x >= 0, y > 0
RoundDiv(x, y) == (2 * x + y) \div (2 * y)

RECURSIVE Sum(_)
Sum(seq) == IF seq = <<>> THEN 0 ELSE Head(seq) + Sum(Tail(seq))

\* calculateAcademicMetrics counting a grade as passed only above the
\* passing grade
calculateAcademicMetricsStrict(subjects, passingGrade) ==
    LET totalMarks == Sum(subjects)
        passedSubjects == Cardinality({i \in 1..Len(subjects) : subjects[i] > passingGrade})
    IN [totalMarks |-> totalMarks,
        averageGrade |-> [hundredths |-> RoundDiv(totalMarks * 100, Len(subjects))],
        passedSubjects |-> passedSubjects,
        totalSubjects |-> Len(subjects),
        allSubjectsPassed |-> passedSubjects = Len(subjects),
        passPercentage |-> RoundDiv(passedSubjects * 100, Len(subjects))]

\* calculateAcademicMetrics(subjects, passingGrade), on non-negative grades;
\* averageGrade is kept as a count of hundredths
calculateAcademicMetrics(subjects, passingGrade) ==
    LET totalMarks == Sum(subjects)
        passedSubjects == Cardinality({i \in 1..Len(subjects) : subjects[i] >= passingGrade})
    IN [totalMarks |-> totalMarks,
        averageGrade |-> [hundredths |-> RoundDiv(totalMarks * 100, Len(subjects))],
        passedSubjects |-> passedSubjects,
        totalSubjects |-> Len(subjects),
        allSubjectsPassed |-> passedSubjects = Len(subjects),
        passPercentage |-> RoundDiv(passedSubjects * 100, Len(subjects))]

----------------------------------------------------------------------------
(* Properties of proof generation *)

Bit(b) == IF b THEN 1 ELSE 0

\* every grade and the threshold in the domain 0..100
InDomain(input) ==
    /\ \A i \in 1..Len(input.subjects) :
          input.subjects[i] >= 0 /\ input.subjects[i] <= MaxGrade
    /\ input.minPassingGrade >= 0
    /\ input.minPassingGrade <= MaxGrade

\* the record's commitment, folded with the siblings of its inclusion
\* proof, is the published root
MerkleValid(input, files) ==
    FoldSorted(FromHex(calculateCommitment(input)),
               [i \in 1..Len(input.merkleProof) |-> FromHex(input.merkleProof[i])])
        = FromHex(files.merkleRoot)

AllPassed(input) ==
    \A i \in 1..Len(input.subjects) : input.subjects[i] >= input.minPassingGrade

\* the public output isValid of a generated proof
IsValidOf(r) == r.val.publicSignals[1]

\* C12: the public output isValid of a generated proof is merkleValid AND
\* gatePolicy, gatePolicy being allPassed when requireAll is 1 and true when
\* it is 0; so isValid is 0 when the commitment is not under the public root
C12_IsValidIsMerkleAndGate ==
    (op = "generateProof" /\ res.ok /\ InDomain(args))
    => IsValidOf(res) = FinalValidation(Bit(MerkleValid(args, cur)),
                                        Bit(AllPassed(args)),
                                        Bit(args.requireAllPassed))

\* the call before this one had the same witness and the same requireAll,
\* gave isValid = 1, and this call asks for a threshold from 0 up to its one
LoweredFromValid ==
    /\ op = "generateProof"
    /\ prev.called
    /\ prev.res.ok
    /\ IsValidOf(prev.res) = 1
    /\ args = [prev.args EXCEPT !.minPassingGrade = args.minPassingGrade]
    /\ args.minPassingGrade >= 0
    /\ args.minPassingGrade <= prev.args.minPassingGrade

\* C13: threshold monotonicity: when isValid = 1 is given for a threshold,
\* the same grades, witness and requireAll give isValid = 1 for every
\* threshold from 0 up to it
C13_ThresholdMonotone ==
    LoweredFromValid => (res.ok /\ IsValidOf(res) = 1)

C13_Witness ==
    /\ LoweredFromValid
    /\ args.requireAllPassed
    /\ args.minPassingGrade < prev.args.minPassingGrade
    /\ IsValidOf(res) = 1

\* C14: no proof is generated when some grade lies outside 0..100
C14_OutOfDomainUnsatisfiable ==
    (/\ op = "generateProof"
     /\ \E i \in 1..nSubjects : args.subjects[i] < 0 \/ args.subjects[i] > MaxGrade)
    => ~res.ok

\* C15: with requireAll = 1, isValid is 1 exactly when every grade is at
\* least the threshold, which is what calculateAcademicMetrics reports as
\* allSubjectsPassed; the grades 88, 92, 85, 90, 87 give 1 at threshold 40
\* and 0 at threshold 90
C15_AllPassedIffEveryGrade ==
    (/\ op = "generateProof"
     /\ cur.wasmExists
     /\ cur.zkeyExists
     /\ args.requireAllPassed
     /\ InDomain(args))
    => /\ res.ok
       /\ IsValidOf(res) = Bit(AllPassed(args))
       /\ IsValidOf(res) =
            Bit(calculateAcademicMetrics(args.subjects,
                                         args.minPassingGrade).allSubjectsPassed)
       /\ (args.subjects = ExampleSubjects /\ args.minPassingGrade = 40)
            => IsValidOf(res) = 1
       /\ (args.subjects = ExampleSubjects /\ args.minPassingGrade = 90)
            => IsValidOf(res) = 0

C15_Witness ==
    /\ op = "generateProof"
    /\ args.requireAllPassed
    /\ args.subjects = ExampleSubjects
    /\ MerkleValid(args, cur)
    /\ args.minPassingGrade = 90
    /\ res.ok
    /\ IsValidOf(res) = 0
    /\ prev.called
    /\ prev.args.minPassingGrade = 40
    /\ prev.res.ok
    /\ IsValidOf(prev.res) = 1

\* C16: the commitment the circuit computes from (studentId, salt, subjects)
\* is the commitment computed off-chain for the same record, the leaf of the
\* tree
C16_CircuitCommitmentIsLeaf ==
    (op = "generateProof" /\ res.ok)
    => res.val.publicSignals[2] = res.val.commitment

MissingArtifact ==
    {FailedToGenerate(ErrWasmMissing), FailedToGenerate(ErrZkeyMissing)}

CircuitUnsatisfied == FailedToGenerate(ErrAssertFailed)

Satisfiable(input) == CertificateVerifier(prepareCircuitInputs(input)).sat

----------------------------------------------------------------------------
(* The places that compute a commitment                                    *)

ErrInvalidStudent == "Invalid student data"

\* a CSV row, or a certificate of a request body
Row(studentId, subjects) ==
    [studentId |-> studentId, studentName |-> "Ann Lee", email |-> "ann@uni.edu",
     subject1 |-> subjects[1], subject2 |-> subjects[2], subject3 |-> subjects[3],
     subject4 |-> subjects[4], subject5 |-> subjects[5]]

SubjectsOf(row) ==
    <<row.subject1, row.subject2, row.subject3, row.subject4, row.subject5>>

\* CertificateService.validateStudentData(row): every subject in [0,100]
validateStudentData(row) ==
    IF \E i \in 1..nSubjects : SubjectsOf(row)[i] < 0 \/ SubjectsOf(row)[i] > 100
    THEN Throw(ErrInvalidStudent)
    ELSE Ok(row)

\* CertificateService.generateCertificateCommitment(studentData); `salt` is
\* what crypto.randomBytes(32) gave
generateCertificateCommitment(studentData, salt) ==
    LET commitmentData == Join(studentData.studentId, salt, SubjectsOf(studentData))
    IN [studentId |-> studentData.studentId,
        studentName |-> studentData.studentName,
        email |-> studentData.email,
        subjects |-> SubjectsOf(studentData),
        salt |-> salt,
        commitment |-> sha256hex(commitmentData),
        commitmentData |-> commitmentData]

\* CertificateUtils.hashStudentData(studentData, salt)
hashStudentData(studentData, salt) ==
    sha256hex(Join(studentData.studentId, salt, studentData.subjects))

\* a student as DynamicCertificateService.processStudentData leaves it
Student(row) ==
    [id |-> 1, name |-> row.studentName, email |-> row.email,
     course |-> "", grade |-> "", student_id |-> row.studentId]

\* POST /api/workflow/process, the commitment of one student: SHA-256 of
\* the JSON of name, email, course, grade, studentId and the time of the call
workflowCommitment(student, now) ==
    LET commitmentData == [name |-> student.name, email |-> student.email,
                           course |-> student.course, grade |-> student.grade,
                           studentId |-> student.student_id, timestamp |-> now]
    IN [student |-> student,
        commitment |-> sha256hex(JsonStringify(commitmentData)),
        commitmentData |-> commitmentData]

\* the handler of POST /api/workflow/process from the session lookup on,
\* for the students processStudentData returned
workflowProcess(sessionLive, processedData, now) ==
    IF ~sessionLive THEN Response(410, "Session expired or not found", <<>>, <<>>)
    ELSE LET certificatesWithCommitments ==
                 [i \in 1..Len(processedData) |-> workflowCommitment(processedData[i], now)]
             merkleTree == buildMerkleTree(Arr(certificatesWithCommitments))
         IN IF ~merkleTree.ok
            THEN Response(500, "Merkle Tree Generation Failed", merkleTree.err, <<>>)
            ELSE Response(200, "", <<>>,
                   [certificates |->
                        [i \in 1..Len(processedData) |->
                            [student |-> processedData[i],
                             commitment |-> certificatesWithCommitments[i].commitment,
                             commitmentData |-> certificatesWithCommitments[i].commitmentData,
                             merkleProof |->
                                 generateMerkleProof(merkleTree.val,
                                     certificatesWithCommitments[i].commitment).val]],
                    merkleRoot |-> OX \o ToHex(getRoot(merkleTree.val)),
                    merkleTreeStats |-> getTreeStats(merkleTree.val)])

----------------------------------------------------------------------------
(* The commitment of one record, computed in several places: the record is  *)
(* drawn in the initial state, and each call names the salt and the clock   *)
(* reading it worked with                                                  *)

\* grades of a row: in range, with a grade above 100, with one below 0
RowVectors ==
    {ExampleSubjects, Uniform(100), [Uniform(100) EXCEPT ![1] = 101],
     [Uniform(40) EXCEPT ![nSubjects] = -1]}

Rows == {Row(IdList[1], v) : v \in RowVectors}

SaltSet == {SaltList[i] : i \in 1..Len(SaltList)}
TimeSet == {TimeList[i] : i \in 1..Len(TimeList)}

CommitCall(fn, row, salt, now) == [fn |-> fn, row |-> row, salt |-> salt, now |-> now]

InitCommit ==
    /\ cur \in [sessionLive : BOOLEAN]
    /\ prev = NoCall
    /\ op = "none"
    /\ args \in {CommitCall("none", row, SaltList[1], TimeList[1]) : row \in Rows}
    /\ res = Ok(<<>>)

\* one call of a place that computes a commitment, after at most one other
Commit(fn, salt, now, r) ==
    /\ ~prev.called
    /\ op' = fn
    /\ args' = CommitCall(fn, args.row, salt, now)
    /\ res' = r
    /\ prev' = IF op = "none" THEN NoCall ELSE Called(args, res)
    /\ cur' = cur

GenerateCertificateCommitment(salt) ==
    Commit("generateCertificateCommitment", salt, args.now,
           Ok(generateCertificateCommitment(args.row, salt)))

HashStudentData(salt) ==
    Commit("hashStudentData", salt, args.now,
           Ok(hashStudentData([studentId |-> args.row.studentId,
                               subjects |-> SubjectsOf(args.row)], salt)))

CalculateCommitment(salt) ==
    Commit("calculateCommitment", salt, args.now,
           Ok(calculateCommitment([studentId |-> args.row.studentId, salt |-> salt,
                                   subjects |-> SubjectsOf(args.row)])))

WorkflowProcess(now) ==
    Commit("POST /api/workflow/process", args.salt, now,
           workflowProcess(cur.sessionLive, <<Student(args.row)>>, now))

NextCommit ==
    \/ \E salt \in SaltSet : GenerateCertificateCommitment(salt)
    \/ \E salt \in SaltSet : HashStudentData(salt)
    \/ \E salt \in SaltSet : CalculateCommitment(salt)
    \/ \E now \in TimeSet : WorkflowProcess(now)

SpecCommit == InitCommit /\ [][NextCommit]_vars

\* the commitment a call returned
CommitmentOf(call, r) ==
    IF call.fn = "generateCertificateCommitment" THEN r.val.commitment
    ELSE IF call.fn = "POST /api/workflow/process" THEN r.val.certificates[1].commitment
    ELSE r.val

\* two calls, one after the other, that computed a commitment for the same
\* record: the same row and the same salt
SameRecordTwice ==
    /\ prev.called
    /\ prev.res.ok
    /\ res.ok
    /\ args.row = prev.args.row
    /\ args.salt = prev.args.salt

\* C18: the commitment is a function of (studentId, salt, subjects): any two
\* computations for the same record, in the same place or in two different
\* places, give the same value
C18_CommitmentDeterministic ==
    SameRecordTwice => CommitmentOf(args, res) = CommitmentOf(prev.args, prev.res)

----------------------------------------------------------------------------
(* CertificateRegistry.sol, with OpenZeppelin's MerkleProof                 *)
(*                                                                         *)
(* A bytes32 is a Word, bytes32(0) is 0.                                    *)

\* keccak256(abi.encodePacked(a, b)): a stand-in whose values lie apart
\* from every SHA-256 value of the model
keccak256(a, b) == 0 - PairWord(a, b)

\* MerkleProof._hashPair(a, b)
hashPair(a, b) == IF a < b THEN keccak256(a, b) ELSE keccak256(b, a)

\* MerkleProof.processProof(proof, leaf)
RECURSIVE processProof(_, _)
processProof(proof, leaf) ==
    IF proof = <<>> THEN leaf
    ELSE processProof(Tail(proof), hashPair(leaf, Head(proof)))

\* MerkleProof.verify(proof, root, leaf)
MerkleProofVerify(proof, root, leaf) == processProof(proof, leaf) = root

Owner == "owner"

\* the value of batches[batchId] for an id never written
EmptyBatchInfo ==
    [merkleRoot |-> 0, institutionName |-> "", courseName |-> "",
     graduationYear |-> 0, totalStudents |-> 0, timestamp |-> 0, isValid |-> FALSE]

\* the contract after its constructor
NewRegistry ==
    [owner |-> Owner, authorizedInstitutions |-> {Owner}, nextBatchId |-> 1,
     batches |-> <<>>]

BatchAt(reg, batchId) ==
    IF batchId \in 1..Len(reg.batches) THEN reg.batches[batchId] ELSE EmptyBatchInfo

Revert(reg, reason) == [ok |-> FALSE, err |-> reason, val |-> 0, reg |-> reg]

\* the checks of issueBatch in their order: the reason of the first that
\* fails, "" when all pass
issueBatchRejection(reg, sender, merkleRoot, institutionName, courseName, graduationYear, totalStudents) ==
    IF ~(sender \in reg.authorizedInstitutions \/ sender = reg.owner)
    THEN "Not authorized to issue certificates"
    ELSE IF merkleRoot = 0 THEN "Invalid Merkle root"
    ELSE IF institutionName = "" THEN "Institution name required"
    ELSE IF courseName = "" THEN "Course name required"
    ELSE IF ~(graduationYear > 1900 /\ graduationYear <= 2100)
    THEN "Invalid graduation year"
    ELSE IF ~(totalStudents > 0) THEN "Total students must be greater than 0"
    ELSE ""

\* issueBatch in which a rejected call has taken an id all the same
issueBatchBurningId(reg, sender, timestamp, merkleRoot, institutionName, courseName, graduationYear, totalStudents) ==
    LET reason == issueBatchRejection(reg, sender, merkleRoot, institutionName,
                                      courseName, graduationYear, totalStudents)
    IN [ok |-> reason = "", err |-> reason,
        val |-> IF reason = "" THEN reg.nextBatchId ELSE 0,
        reg |-> [reg EXCEPT
                   !.nextBatchId = @ + 1,
                   !.batches = Append(@,
                       IF reason # "" THEN EmptyBatchInfo
                       ELSE [merkleRoot |-> merkleRoot,
                             institutionName |-> institutionName,
                             courseName |-> courseName,
                             graduationYear |-> graduationYear,
                             totalStudents |-> totalStudents,
                             timestamp |-> timestamp,
                             isValid |-> TRUE])]]

\* issueBatch(merkleRoot, institutionName, courseName, graduationYear,
\*            totalStudents), sent by `sender` in a block of time `timestamp`
issueBatch(reg, sender, timestamp, merkleRoot, institutionName, courseName, graduationYear, totalStudents) ==
    LET reason == issueBatchRejection(reg, sender, merkleRoot, institutionName,
                                      courseName, graduationYear, totalStudents)
    IN IF reason # "" THEN Revert(reg, reason)
       ELSE [ok |-> TRUE, err |-> "", val |-> reg.nextBatchId,
             reg |-> [reg EXCEPT
                        !.nextBatchId = @ + 1,
                        !.batches = Append(@,
                            [merkleRoot |-> merkleRoot,
                             institutionName |-> institutionName,
                             courseName |-> courseName,
                             graduationYear |-> graduationYear,
                             totalStudents |-> totalStudents,
                             timestamp |-> timestamp,
                             isValid |-> TRUE])]]

\* verifyCertificate without its require
verifyCertificateUnchecked(reg, batchId, certificateHash, merkleProof) ==
    Ok(MerkleProofVerify(merkleProof, BatchAt(reg, batchId).merkleRoot,
                         certificateHash))

\* verifyCertificate(batchId, certificateHash, merkleProof)
verifyCertificate(reg, batchId, certificateHash, merkleProof) ==
    IF ~BatchAt(reg, batchId).isValid THEN Throw("Batch is not valid")
    ELSE Ok(MerkleProofVerify(merkleProof, BatchAt(reg, batchId).merkleRoot,
                              certificateHash))

\* setInstitutionAuthorization(institution, authorized): onlyOwner
setInstitutionAuthorization(reg, sender, institution, authorized) ==
    IF sender # reg.owner THEN Revert(reg, "Ownable: caller is not the owner")
    ELSE [ok |-> TRUE, err |-> "", val |-> 0,
          reg |-> [reg EXCEPT !.authorizedInstitutions =
                      IF authorized THEN @ \cup {institution} ELSE @ \ {institution}]]

\* revokeBatch that flips isValid
revokeBatchFlipping(reg, sender, batchId) ==
    IF ~(sender \in reg.authorizedInstitutions \/ sender = reg.owner)
    THEN Revert(reg, "Not authorized to issue certificates")
    ELSE IF BatchAt(reg, batchId).merkleRoot = 0 THEN Revert(reg, "Batch does not exist")
    ELSE [ok |-> TRUE, err |-> "", val |-> 0,
          reg |-> [reg EXCEPT !.batches[batchId].isValid = ~@]]

\* revokeBatch(batchId): onlyAuthorized
revokeBatch(reg, sender, batchId) ==
    IF ~(sender \in reg.authorizedInstitutions \/ sender = reg.owner)
    THEN Revert(reg, "Not authorized to issue certificates")
    ELSE IF BatchAt(reg, batchId).merkleRoot = 0 THEN Revert(reg, "Batch does not exist")
    ELSE [ok |-> TRUE, err |-> "", val |-> 0,
          reg |-> [reg EXCEPT !.batches[batchId].isValid = FALSE]]

\* getTotalBatches()
getTotalBatches(reg) == reg.nextBatchId - 1

\* block.timestamp of the blocks that hold the transactions
BlockTimes == <<1700000000, 1700003600>>

\* a call of a ZKCertificateSystem function: what it returns or the reason
\* it reverts with, and the events it emits
Call(ok, err, val, events) == [ok |-> ok, err |-> err, val |-> val, events |-> events]

\* ZKCertificateSystem.verifyAcademicAchievement(proof, batchId,
\* minPassingGrade, requiresAllSubjectsPassed), sent by `sender`;
\* verifierAnswer is what verifier.verifyProof returns for the proof and
\* the public signal made of the three criteria
verifyAcademicAchievement(reg, sender, verifierAnswer, batchId, minPassingGrade, requiresAllSubjectsPassed) ==
    IF ~BatchAt(reg, batchId).isValid THEN Call(FALSE, "Batch is not valid", FALSE, <<>>)
    ELSE IF ~(minPassingGrade > 0 /\ minPassingGrade <= 100)
    THEN Call(FALSE, "Invalid passing grade", FALSE, <<>>)
    ELSE Call(TRUE, "", verifierAnswer,
              IF verifierAnswer
              THEN <<[event |-> "ZKProofVerified", student |-> sender,
                      batchId |-> batchId, minPassingGrade |-> minPassingGrade,
                      allSubjectsPassed |-> requiresAllSubjectsPassed]>>
              ELSE <<>>)

\* ZKCertificateSystem.verifyBasicCertificate(proof, batchId)
verifyBasicCertificate(reg, sender, verifierAnswer, batchId) ==
    IF ~BatchAt(reg, batchId).isValid THEN Call(FALSE, "Batch is not valid", FALSE, <<>>)
    ELSE Call(TRUE, "", verifierAnswer,
              IF verifierAnswer
              THEN <<[event |-> "ZKProofVerified", student |-> sender,
                      batchId |-> batchId, minPassingGrade |-> 0,
                      allSubjectsPassed |-> FALSE]>>
              ELSE <<>>)

\* a '0x..' hex string of 32 bytes, or a bare one, as a bytes32 argument
Bytes32(hex) ==
    LET b == FromHex(Replace0x(hex)) IN IF b = <<>> THEN 0 ELSE b[1]

----------------------------------------------------------------------------
(* The /api/certificates routes that prepare a batch                       *)

\* merkleTree.getHexRoot()
getHexRoot(t) == OX \o ToHex(getRoot(t))

\* merkleTree.getHexProof(leaf)
getHexProof(t, leaf) ==
    LET proof == getProof(t, FromHex(Replace0x(leaf)))
    IN [i \in 1..Len(proof) |-> OX \o ToHex(proof[i].data)]

\* the handler of POST /api/certificates/process-csv, for the rows of the
\* uploaded file and the salts drawn for them
processCsv(rows, salts) ==
    IF \E i \in 1..Len(rows) : ~validateStudentData(rows[i]).ok
    THEN Response(500, "CSV Processing Failed",
                  <<"Invalid student data at row: ", ErrInvalidStudent>>, <<>>)
    ELSE IF Len(rows) = 0
    THEN Response(400, "No valid student data found in CSV", <<>>, <<>>)
    ELSE LET certificates ==
                 [i \in 1..Len(rows) |-> generateCertificateCommitment(rows[i], salts[i])]
             merkleTree == buildMerkleTree(Arr(certificates))
         IN IF ~merkleTree.ok
            THEN Response(500, "CSV Processing Failed", <<merkleTree.err>>, <<>>)
            ELSE Response(200, "", <<>>,
                   [merkleRoot |-> getHexRoot(merkleTree.val),
                    totalStudents |-> Len(rows),
                    certificates |->
                        [i \in 1..Len(rows) |->
                            [certificate |-> certificates[i],
                             merkleProof |-> getHexProof(merkleTree.val,
                                                         certificates[i].commitment)]]])

\* the handler of POST /api/certificates/generate: no validation of the
\* certificates it is given
postCertificatesGenerate(certificates, salts) ==
    IF ~certificates.defined
    THEN Response(400, "Certificates array is required", <<>>, <<>>)
    ELSE LET items == certificates.items
             certificateCommitments ==
                 [i \in 1..Len(items) |-> generateCertificateCommitment(items[i], salts[i])]
             merkleTree == buildMerkleTree(Arr(certificateCommitments))
         IN IF ~merkleTree.ok
            THEN Response(500, "Certificate Generation Failed", <<merkleTree.err>>, <<>>)
            ELSE Response(200, "", <<>>,
                   [merkleRoot |-> getHexRoot(merkleTree.val),
                    certificates |-> certificateCommitments,
                    zkProofs |-> [i \in 1..Len(items) |->
                                    [certificateId |-> <<"CERT", i - 1>>,
                                     proof |-> "0x<random>",
                                     publicSignals |-> <<UNDEFINED>>]],
                    totalCertificates |-> Len(items)])

----------------------------------------------------------------------------
(* A batch from its rows to the registry: the batch last processed, and the *)
(* registry                                                                *)

\* no rows, one row, or two rows that drew the same salt
RowLists ==
    {<<>>} \cup {<<r>> : r \in Rows} \cup {<<r1, r2>> : r1, r2 \in Rows}

NoProcessed == [has |-> FALSE, merkleRoot |-> EMPTY, certificates |-> <<>>]

Processed(data) ==
    [has |-> TRUE, merkleRoot |-> data.merkleRoot, certificates |-> data.certificates]

InitBatch ==
    /\ cur = [batch |-> NoProcessed, reg |-> NewRegistry]
    /\ prev = [batch |-> NoProcessed, reg |-> NewRegistry]
    /\ op = "none"
    /\ args = <<>>
    /\ res = Ok(<<>>)

\* POST /api/certificates/process-csv
ProcessCsv(rows, salt) ==
    LET r == processCsv(rows, [i \in 1..Len(rows) |-> salt])
    IN /\ op' = "POST /api/certificates/process-csv"
       /\ args' = [rows |-> rows]
       /\ res' = r
       /\ cur' = IF r.ok THEN [cur EXCEPT !.batch = Processed(r.val)] ELSE cur
       /\ prev' = cur

\* POST /api/certificates/generate
PostCertificatesGenerate(certificates, salt) ==
    /\ op' = "POST /api/certificates/generate"
    /\ args' = [rows |-> certificates.items]
    /\ res' = postCertificatesGenerate(certificates,
                                       [i \in 1..Len(certificates.items) |-> salt])
    /\ cur' = cur
    /\ prev' = cur

\* issueBatch sent by the owner, for the root of the batch last processed
IssueBatch(merkleRoot) ==
    LET r == issueBatch(cur.reg, Owner, BlockTimes[1], merkleRoot, "University",
                        "Course", 2024, Len(cur.batch.certificates))
    IN /\ cur.reg.nextBatchId <= MaxBatches
       /\ op' = "issueBatch"
       /\ args' = [merkleRoot |-> merkleRoot]
       /\ res' = [ok |-> r.ok, err |-> r.err, val |-> r.val]
       /\ cur' = [cur EXCEPT !.reg = r.reg]
       /\ prev' = cur

\* verifyCertificate for certificate i of the batch last processed, with
\* the proof the route returned for it
VerifyCertificate(batchId, i) ==
    LET c == cur.batch.certificates[i]
        certificateHash == Bytes32(c.certificate.commitment)
        merkleProof == [j \in 1..Len(c.merkleProof) |-> Bytes32(c.merkleProof[j])]
    IN /\ cur.batch.has
       /\ i \in 1..Len(cur.batch.certificates)
       /\ op' = "verifyCertificate"
       /\ args' = [batchId |-> batchId, i |-> i, certificateHash |-> certificateHash,
                   merkleProof |-> merkleProof]
       /\ res' = verifyCertificate(cur.reg, batchId, certificateHash, merkleProof)
       /\ cur' = cur
       /\ prev' = cur

NextBatch ==
    \/ \E rows \in RowLists, salt \in SaltSet : ProcessCsv(rows, salt)
    \/ \E rows \in RowLists, salt \in SaltSet : PostCertificatesGenerate(Arr(rows), salt)
    \/ PostCertificatesGenerate(NoArr, SaltList[1])
    \/ IssueBatch(Bytes32(cur.batch.merkleRoot))
    \/ \E batchId \in 1..MaxBatches, i \in 1..MaxCerts : VerifyCertificate(batchId, i)

SpecBatch == InitBatch /\ [][NextBatch]_vars

AllInRange(rows) ==
    \A i \in 1..Len(rows) : \A j \in 1..nSubjects :
        SubjectsOf(rows[i])[j] >= 0 /\ SubjectsOf(rows[i])[j] <= 100

\* the batch last processed is the one issued under args.batchId
IssuedAsProcessed ==
    /\ cur.batch.has
    /\ BatchAt(cur.reg, args.batchId).isValid
    /\ BatchAt(cur.reg, args.batchId).merkleRoot = Bytes32(cur.batch.merkleRoot)

\* C17: every batch of valid rows is built, and for a batch issued on the
\* registry, each of its leaves with the proof produced off-chain is
\* accepted by verifyCertificate as it is by the off-chain verifyProof
C17_OnChainAgreesWithOffChain ==
    /\ (/\ op = "POST /api/certificates/process-csv"
        /\ Len(args.rows) >= 1
        /\ AllInRange(args.rows))
       => res.ok
    /\ (op = "verifyCertificate" /\ IssuedAsProcessed)
       => LET c == cur.batch.certificates[args.i]
          IN /\ res.ok
             /\ res.val = TRUE
             /\ verifyProof(c.certificate.commitment,
                            [j \in 1..Len(c.merkleProof) |-> StringElement(c.merkleProof[j])],
                            cur.batch.merkleRoot) = TRUE

\* C19: a record with a grade outside [0,100] gets no commitment: the call
\* fails, and no tree with its leaf is built
C19_OutOfRangeNoCommitment ==
    (/\ op \in {"POST /api/certificates/process-csv", "POST /api/certificates/generate"}
     /\ ~AllInRange(args.rows))
    => (~res.ok /\ cur = prev)

----------------------------------------------------------------------------
(* ZKProofService.verifyProof and POST /api/zkproofs/verify                 *)

\* formatProofFromSolidity(solidityProof): reading a[0] of a proof without
\* the member a (or of null) raises a TypeError
formatProofFromSolidity(solidityProof) ==
    IF ~({"a", "b", "c"} \subseteq DOMAIN solidityProof) THEN Throw(ErrType)
    ELSE Ok([pi_a |-> <<solidityProof.a[1], solidityProof.a[2], One>>,
             pi_b |-> <<<<solidityProof.b[1][2], solidityProof.b[1][1]>>,
                        <<solidityProof.b[2][2], solidityProof.b[2][1]>>,
                        <<One, Zero>>>>,
             pi_c |-> <<solidityProof.c[1], solidityProof.c[2], One>>,
             protocol |-> "groth16"])

\* the affine coordinates of a proof in snarkjs form
CoordsOf(proof) ==
    <<proof.pi_a[1], proof.pi_a[2], proof.pi_b[1][1], proof.pi_b[1][2],
      proof.pi_b[2][1], proof.pi_b[2][2], proof.pi_c[1], proof.pi_c[2]>>

CoordNames == <<"a0", "a1", "b00", "b01", "b10", "b11", "c0", "c1">>

ErrNotOnCurve == "Invalid point: not on curve"

\* snarkjs.groth16.verify(verificationKey, publicSignals, proof): decoding a
\* coordinate that is no curve point raises; the pairing check passes for a
\* proof made with the proving key of this verification key for these
\* public signals
groth16Verify(vkeyVersion, publicSignals, proof) ==
    LET cs == CoordsOf(proof)
    IN IF \E i \in 1..Len(cs) : cs[i][1] = "notOnCurve" THEN Throw(ErrNotOnCurve)
       ELSE Ok(\A i \in 1..Len(cs) :
                   cs[i][1] = CoordNames[i] /\ cs[i][2] = vkeyVersion
                       /\ cs[i][3] = publicSignals)

\* verifyProof whose catch block answers true
verifyProofOpen(proof, publicSignals, keys) ==
    IF ~keys.vkeyExists \/ ~keys.vkeyParses THEN Ok(TRUE)
    ELSE LET formattedProof == formatProofFromSolidity(proof)
         IN IF ~formattedProof.ok THEN Ok(TRUE)
            ELSE LET isValid == groth16Verify(keys.vkeyVersion, publicSignals,
                                              formattedProof.val)
                 IN IF ~isValid.ok THEN Ok(TRUE) ELSE Ok(isValid.val)

\* ZKProofService.verifyProof(proof, publicSignals), with the verification
\* key file as it is on disk: everything thrown inside is caught and
\* answered with false
zkVerifyProof(proof, publicSignals, keys) ==
    IF ~keys.vkeyExists \/ ~keys.vkeyParses THEN Ok(FALSE)
    ELSE LET formattedProof == formatProofFromSolidity(proof)
         IN IF ~formattedProof.ok THEN Ok(FALSE)
            ELSE LET isValid == groth16Verify(keys.vkeyVersion, publicSignals,
                                              formattedProof.val)
                 IN IF ~isValid.ok THEN Ok(FALSE) ELSE Ok(isValid.val)

\* verificationSchema.validate(req.body): proof is an object with pi_a (3
\* strings), pi_b (3 arrays of 2 strings), pi_c (3 strings), an optional
\* protocol and no other key
verificationSchemaError(body) ==
    LET proof == body.proof
    IN \/ ~({"pi_a", "pi_b", "pi_c"} \subseteq DOMAIN proof)
       \/ ~(DOMAIN proof \subseteq {"pi_a", "pi_b", "pi_c", "protocol"})
       \/ Len(proof.pi_a) # 3
       \/ Len(proof.pi_b) # 3
       \/ \E i \in 1..Len(proof.pi_b) : Len(proof.pi_b[i]) # 2
       \/ Len(proof.pi_c) # 3

\* the handler of POST /api/zkproofs/verify
postVerify(body, keys) ==
    IF verificationSchemaError(body)
    THEN Response(400, "Validation Error", <<>>, <<>>)
    ELSE LET isValid == zkVerifyProof(body.proof, body.publicSignals, keys)
         IN IF ~isValid.ok
            THEN Response(500, "ZK Proof Verification Failed", isValid.err, <<>>)
            ELSE Response(200, "", <<>>,
                          [valid |-> isValid.val,
                           message |-> IF isValid.val THEN "ZK proof is valid"
                                       ELSE "ZK proof verification failed"])

----------------------------------------------------------------------------
(* Proofs generated and verified by the service: the key files on disk are  *)
(* drawn in the initial state; requests are made in any order               *)

KeyVersions == {1, 2}
Blindings == {1, 2}

\* the key files: the proving key, and the verification key, which may be
\* missing, unreadable as JSON, or of another setup than the proving key
KeyFiles ==
    [wasmExists : {TRUE}, zkeyExists : BOOLEAN, merkleRoot : {PublishedRoot},
     zkeyVersion : KeyVersions, vkeyExists : BOOLEAN, vkeyParses : BOOLEAN,
     vkeyVersion : KeyVersions]

\* requests: the example record, and one with a failing grade, which the
\* circuit proves with isValid = 0 when not all subjects are required
ZKInputs ==
    [studentId : {IdList[1]},
     subjects : {ExampleSubjects, [ExampleSubjects EXCEPT ![1] = 39]},
     salt : {SaltList[1]},
     minPassingGrade : {40},
     requireAllPassed : BOOLEAN,
     merkleProof : {<<>>}]

\* null
NullProof == [x \in {} |-> x]

\* what a caller hands to verification, made from the artifact it holds:
\* the proof as generateProof returned it, the same in snarkjs form, null,
\* or the returned proof with a coordinate that is no curve point
ProofForms == {"returned", "snarkjs", "null", "notOnCurve"}

ProofAs(form, proof) ==
    CASE form = "returned" -> proof
      [] form = "snarkjs" -> formatProofFromSolidity(proof).val
      [] form = "null" -> NullProof
      [] form = "notOnCurve" -> [proof EXCEPT !.a[1][1] = "notOnCurve"]

\* the public signals as returned, or with isValid replaced by 1 - isValid
SignalsAs(same, publicSignals) ==
    IF same THEN publicSignals ELSE [publicSignals EXCEPT ![1] = 1 - @]

InitZK ==
    /\ cur \in KeyFiles
    /\ prev = NoCall
    /\ op = "none"
    /\ args = <<>>
    /\ res = Ok(<<>>)

\* the last generateProof call before the present one
LastGenerate == IF op = "generateProof" THEN Called(args, res) ELSE prev

\* ZKProofService.generateProof(input); the prover draws rnd
GenerateProofZK(input, rnd) ==
    /\ op' = "generateProof"
    /\ args' = [input |-> input, drawn |-> rnd]
    /\ res' = generateProof(input, cur @@ [rnd |-> rnd])
    /\ prev' = LastGenerate
    /\ cur' = cur

\* ZKProofService.verifyProof(proof, publicSignals) on the artifact last
\* generated
VerifyProofZK(form, same) ==
    /\ LastGenerate.called
    /\ LastGenerate.res.ok
    /\ op' = "verifyProof"
    /\ args' = [form |-> form, same |-> same,
                proof |-> ProofAs(form, LastGenerate.res.val.proof),
                publicSignals |-> SignalsAs(same, LastGenerate.res.val.publicSignals)]
    /\ res' = zkVerifyProof(args'.proof, args'.publicSignals, cur)
    /\ prev' = LastGenerate
    /\ cur' = cur

\* POST /api/zkproofs/verify with the artifact last generated
PostVerify(form, same) ==
    /\ LastGenerate.called
    /\ LastGenerate.res.ok
    /\ op' = "POST /api/zkproofs/verify"
    /\ args' = [form |-> form, same |-> same,
                proof |-> ProofAs(form, LastGenerate.res.val.proof),
                publicSignals |-> SignalsAs(same, LastGenerate.res.val.publicSignals)]
    /\ res' = postVerify([proof |-> args'.proof, publicSignals |-> args'.publicSignals], cur)
    /\ prev' = LastGenerate
    /\ cur' = cur

NextZK ==
    \/ \E input \in ZKInputs, rnd \in Blindings : GenerateProofZK(input, rnd)
    \/ \E form \in ProofForms, same \in BOOLEAN : VerifyProofZK(form, same)
    \/ \E form \in ProofForms, same \in BOOLEAN : PostVerify(form, same)

SpecZK == InitZK /\ [][NextZK]_vars

\* the Groth16 check itself was reached and returned true
Groth16ReturnedTrue(proof, publicSignals, keys) ==
    /\ keys.vkeyExists
    /\ keys.vkeyParses
    /\ formatProofFromSolidity(proof).ok
    /\ LET isValid == groth16Verify(keys.vkeyVersion, publicSignals,
                                    formatProofFromSolidity(proof).val)
       IN isValid.ok /\ isValid.val

\* C21: verifyProof ends with a boolean for every proof handed to it, the
\* malformed ones and the ones whose decoding raises included; no exception
\* reaches the caller or the route, and true is answered only when the
\* Groth16 check returned true
C21_VerifyFailsClosed ==
    /\ op = "verifyProof"
       => /\ res.ok
          /\ res.val \in BOOLEAN
          /\ res.val => Groth16ReturnedTrue(args.proof, args.publicSignals, cur)
    /\ op = "POST /api/zkproofs/verify"
       => /\ res.status \in {200, 400}
          /\ (res.ok /\ res.val.valid)
             => Groth16ReturnedTrue(args.proof, args.publicSignals, cur)

\* C21 witness: a proof with a coordinate that is no curve point, verified
\* with a readable key, is answered with false
C21_Witness ==
    /\ op = "verifyProof"
    /\ args.form = "notOnCurve"
    /\ cur.vkeyExists
    /\ cur.vkeyParses
    /\ res.ok
    /\ res.val = FALSE

\* the verification key is missing, or of another setup than the proving key
KeyMismatch == ~cur.vkeyExists \/ cur.vkeyVersion # cur.zkeyVersion

\* C22: with the verification key missing or of another setup than the key
\* the proof was made with, verification does not answer a plain false
C22_KeyMismatchReported ==
    (op = "verifyProof" /\ KeyMismatch) => ~(res.ok /\ res.val = FALSE)

\* C23: a generateProof request with the inputs of an earlier one returns
\* what the earlier one returned
C23_GenerateIdempotent ==
    (op = "generateProof" /\ prev.called /\ prev.args.input = args.input)
    => res = prev.res

KeysMatch == cur.vkeyExists /\ cur.vkeyParses /\ cur.vkeyVersion = cur.zkeyVersion

\* C27: formatProofFromSolidity undoes formatProofForSolidity on the affine
\* coordinates, and the proof object generateProof returned, with its
\* public signals, is accepted by verifyProof and by POST /verify
C27_FormatRoundTripAccepted ==
    /\ (op = "generateProof" /\ res.ok)
       => LET p == SnarkProof(cur.zkeyVersion, res.val.publicSignals, args.drawn)
              back == formatProofFromSolidity(formatProofForSolidity(p))
          IN /\ back.ok
             /\ back.val.pi_a = p.pi_a
             /\ back.val.pi_b = p.pi_b
             /\ back.val.pi_c = p.pi_c
    /\ (op = "verifyProof" /\ args.form = "returned" /\ args.same /\ KeysMatch)
       => (res.ok /\ res.val = TRUE)
    /\ (op = "POST /api/zkproofs/verify" /\ args.form = "returned" /\ args.same
            /\ KeysMatch)
       => (res.ok /\ res.val.valid)

----------------------------------------------------------------------------
(* The registry under transactions of any sender: cur.reg is the contract,  *)
(* cur.ids the ids that issueBatch has returned so far, in order            *)

Institution == "institution"
Stranger == "stranger"
Senders == {Owner, Institution, Stranger}

\* batchSchema.validate(body) of the backend (names of the model are empty
\* or of two characters and more)
batchSchemaError(body) ==
    \/ body.institutionName = ""
    \/ body.courseName = ""
    \/ body.graduationYear < 1900
    \/ body.graduationYear > 2100

BaseRequest ==
    [sender |-> Owner, merkleRoot |-> 1, institutionName |-> "University",
     courseName |-> "Course", graduationYear |-> 2024, totalStudents |-> 30]

\* issueBatch requests: two that pass, and the base one with one argument
\* or the sender changed
IssueRequests ==
    {BaseRequest,
     [BaseRequest EXCEPT !.merkleRoot = 2, !.graduationYear = 2100],
     [BaseRequest EXCEPT !.merkleRoot = 0],
     [BaseRequest EXCEPT !.institutionName = ""],
     [BaseRequest EXCEPT !.courseName = ""],
     [BaseRequest EXCEPT !.graduationYear = 1900],
     [BaseRequest EXCEPT !.graduationYear = 2101],
     [BaseRequest EXCEPT !.totalStudents = 0],
     [BaseRequest EXCEPT !.sender = Institution],
     [BaseRequest EXCEPT !.sender = Stranger]}

\* ids handed to the functions that take one: 0, the ids that can be
\* issued, and one that cannot
BatchIds == 0..(MaxBatches + 1)

PassingGrades == {0, 1, 100, 101}

InitRegistry ==
    /\ cur = [reg |-> NewRegistry, ids |-> <<>>]
    /\ prev = [reg |-> NewRegistry, ids |-> <<>>]
    /\ op = "none"
    /\ args = <<>>
    /\ res = Call(TRUE, "", 0, <<>>)

\* a transaction that changes the registry's storage when it succeeds
Transact(name, a, r) ==
    /\ op' = name
    /\ args' = a
    /\ res' = Call(r.ok, r.err, r.val, <<>>)
    /\ cur' = [reg |-> r.reg,
               ids |-> IF name = "issueBatch" /\ r.ok THEN Append(cur.ids, r.val)
                       ELSE cur.ids]
    /\ prev' = cur

\* a call that leaves the storage as it is
View(name, a, r) ==
    /\ op' = name
    /\ args' = a
    /\ res' = r
    /\ cur' = cur
    /\ prev' = cur

SetInstitutionAuthorization(sender, authorized) ==
    Transact("setInstitutionAuthorization",
             [sender |-> sender, institution |-> Institution, authorized |-> authorized],
             setInstitutionAuthorization(cur.reg, sender, Institution, authorized))

IssueBatchBy(request, timestamp) ==
    /\ cur.reg.nextBatchId <= MaxBatches
    /\ Transact("issueBatch", request @@ [timestamp |-> timestamp],
                issueBatch(cur.reg, request.sender, timestamp, request.merkleRoot,
                           request.institutionName, request.courseName,
                           request.graduationYear, request.totalStudents))

RevokeBatch(sender, batchId) ==
    Transact("revokeBatch", [sender |-> sender, batchId |-> batchId],
             revokeBatch(cur.reg, sender, batchId))

GetTotalBatches ==
    View("getTotalBatches", <<>>, Call(TRUE, "", getTotalBatches(cur.reg), <<>>))

\* verifyCertificate with the batch's own root as the leaf and no proof, or
\* with another leaf
VerifyCertificateOf(batchId, certificateHash) ==
    LET r == verifyCertificate(cur.reg, batchId, certificateHash, <<>>)
    IN View("verifyCertificate",
            [batchId |-> batchId, certificateHash |-> certificateHash],
            Call(r.ok, r.err, r.ok /\ r.val, <<>>))

VerifyAcademicAchievement(verifierAnswer, batchId, minPassingGrade) ==
    View("verifyAcademicAchievement",
         [verifierAnswer |-> verifierAnswer, batchId |-> batchId,
          minPassingGrade |-> minPassingGrade],
         verifyAcademicAchievement(cur.reg, Stranger, verifierAnswer, batchId,
                                   minPassingGrade, TRUE))

VerifyBasicCertificate(verifierAnswer, batchId) ==
    View("verifyBasicCertificate",
         [verifierAnswer |-> verifierAnswer, batchId |-> batchId],
         verifyBasicCertificate(cur.reg, Stranger, verifierAnswer, batchId))

NextRegistry ==
    \/ \E sender \in Senders, authorized \in BOOLEAN :
           SetInstitutionAuthorization(sender, authorized)
    \/ \E request \in IssueRequests, i \in 1..Len(BlockTimes) :
           IssueBatchBy(request, BlockTimes[i])
    \/ \E sender \in Senders, batchId \in BatchIds : RevokeBatch(sender, batchId)
    \/ GetTotalBatches
    \/ \E batchId \in BatchIds, certificateHash \in {1, 2} :
           VerifyCertificateOf(batchId, certificateHash)
    \/ \E verifierAnswer \in BOOLEAN, batchId \in BatchIds, g \in PassingGrades :
           VerifyAcademicAchievement(verifierAnswer, batchId, g)
    \/ \E verifierAnswer \in BOOLEAN, batchId \in BatchIds :
           VerifyBasicCertificate(verifierAnswer, batchId)

SpecRegistry == InitRegistry /\ [][NextRegistry]_vars

\* the fields of a batch that are written once
Immutable(b) ==
    <<b.merkleRoot, b.institutionName, b.courseName, b.graduationYear,
      b.totalStudents, b.timestamp>>

\* C24: from one state of the registry to the next, every batch keeps its
\* merkleRoot, names, graduationYear, totalStudents and timestamp; isValid
\* never goes from false to true, and goes from true to false only in a
\* revokeBatch of that very batch
C24_OnlyValidityChanges ==
    \A id \in 1..Len(prev.reg.batches) :
        /\ id <= Len(cur.reg.batches)
        /\ Immutable(cur.reg.batches[id]) = Immutable(prev.reg.batches[id])
        /\ cur.reg.batches[id].isValid => prev.reg.batches[id].isValid
        /\ (prev.reg.batches[id].isValid /\ ~cur.reg.batches[id].isValid)
           => (op = "revokeBatch" /\ res.ok /\ args.batchId = id)

\* C24 witness: one of two valid batches has been revoked, the other is
\* still valid
C24_Witness ==
    /\ op = "revokeBatch"
    /\ res.ok
    /\ Len(cur.reg.batches) >= 2
    /\ prev.reg.batches[args.batchId].isValid
    /\ ~cur.reg.batches[args.batchId].isValid
    /\ \E id \in 1..Len(cur.reg.batches) : cur.reg.batches[id].isValid

\* C25: the ids issueBatch has returned are 1, 2, .. in this order, a
\* rejected issueBatch changes nothing, getTotalBatches() is the number of
\* ids returned, and the ids 1..getTotalBatches() are the ones that hold a
\* batch with a non-zero root
C25_SequentialIds ==
    /\ cur.ids = [k \in 1..Len(cur.ids) |-> k]
    /\ getTotalBatches(cur.reg) = Len(cur.ids)
    /\ (op = "issueBatch" /\ res.ok) => res.val = Len(cur.ids)
    /\ (op = "issueBatch" /\ ~res.ok) => cur = prev
    /\ op = "getTotalBatches" => res.val = Len(cur.ids)
    /\ \A id \in BatchIds :
           (BatchAt(cur.reg, id).merkleRoot # 0) <=> (id \in 1..getTotalBatches(cur.reg))

\* C25 witness: a rejected issueBatch after a successful one
C25_Witness ==
    /\ op = "issueBatch"
    /\ ~res.ok
    /\ Len(cur.ids) >= 1

\* C26: for a batch id that is revoked or was never issued, each of the
\* three verification functions reverts with 'Batch is not valid' and
\* emits no event
C26_InvalidBatchNeverVerifies ==
    (/\ op \in {"verifyCertificate", "verifyAcademicAchievement",
                "verifyBasicCertificate"}
     /\ ~BatchAt(cur.reg, args.batchId).isValid)
    => (~res.ok /\ res.err = "Batch is not valid" /\ res.val = FALSE
            /\ res.events = <<>>)

\* C26 witness: a revoked batch, its own root as the leaf, rejected
C26_Witness ==
    /\ op = "verifyCertificate"
    /\ BatchAt(cur.reg, args.batchId).merkleRoot = args.certificateHash
    /\ ~BatchAt(cur.reg, args.batchId).isValid
    /\ ~res.ok

\* C30: a minPassingGrade that proofSchema accepts is accepted by
\* verifyAcademicAchievement for a valid batch, and a graduationYear that
\* batchSchema accepts is accepted by issueBatch in a request that is
\* otherwise in order
C30_PolicyParametersConsistent ==
    /\ (/\ op = "verifyAcademicAchievement"
        /\ BatchAt(cur.reg, args.batchId).isValid
        /\ ~proofSchemaError([subjects |-> ExampleSubjects,
                              minPassingGrade |-> args.minPassingGrade]))
       => res.ok
    /\ (/\ op = "issueBatch"
        /\ ~batchSchemaError(args)
        /\ args.sender = Owner
        /\ args.merkleRoot # 0
        /\ args.totalStudents > 0)
       => res.ok

----------------------------------------------------------------------------
(* The preimage of a commitment, character by character                    *)
(*                                                                         *)
(* A string is the sequence of its characters.                              *)

Chars == {"a", "|"}

DigitChars == <<"0", "1", "2", "3", "4", "5", "6", "7", "8", "9">>

\* String(n) of a non-negative integer: its decimal digits
RECURSIVE toString(_)
toString(n) ==
    IF n < 10 THEN <<DigitChars[n + 1]>>
    ELSE toString(n \div 10) \o <<DigitChars[(n % 10) + 1]>>

\* parts.join(separator)
RECURSIVE join(_, _)
join(parts, separator) ==
    IF parts = <<>> THEN <<>>
    ELSE IF Len(parts) = 1 THEN parts[1]
    ELSE parts[1] \o separator \o join(Tail(parts), separator)

\* commitmentData of calculateCommitment, hashStudentData and
\* generateCertificateCommitment: [studentId, salt, ...subjects].join('|')
commitmentData(input) ==
    join(<<input.studentId, input.salt>>
             \o [i \in 1..Len(input.subjects) |-> toString(input.subjects[i])],
         <<"|">>)

\* strings of one to three characters
ShortStrings ==
    {<<c>> : c \in Chars} \cup {<<c, d>> : c, d \in Chars}
        \cup {<<c, d, e>> : c, d, e \in Chars}

\* inputs of calculateCommitment: any strings as id and salt, five grades
BindingInputs ==
    [studentId : ShortStrings, salt : ShortStrings,
     subjects : {ExampleSubjects, [ExampleSubjects EXCEPT ![1] = 8]},
     minPassingGrade : {40}]

InitBinding ==
    /\ cur \in BindingInputs
    /\ prev = NoCall
    /\ op = "none"
    /\ args = <<>>
    /\ res = Ok(<<>>)

\* the preimages of the commitments of the record drawn and of another
CalculateCommitments(other) ==
    /\ op = "none"
    /\ op' = "calculateCommitment"
    /\ args' = other
    /\ res' = Ok([first |-> commitmentData(cur), second |-> commitmentData(other)])
    /\ UNCHANGED <<cur, prev>>

NextBinding == \E other \in BindingInputs : CalculateCommitments(other)

SpecBinding == InitBinding /\ [][NextBinding]_vars

\* C28: two records that proofSchema accepts and that differ in studentId,
\* salt or a grade have different preimages
C28_CommitmentBinding ==
    (/\ op = "calculateCommitment"
     /\ ~proofSchemaError(cur)
     /\ ~proofSchemaError(args)
     /\ cur # args)
    => res.val.first # res.val.second

----------------------------------------------------------------------------
(* The workflow sessions of /api/workflow (global.certificateWorkflow-      *)
(* Sessions)                                                               *)
(*                                                                         *)
(* The clock counts in units of which SessionLifetime make the hour a       *)
(* session lives; session ids are the numbers 1, 2, .. in order of          *)
(* creation (the code makes them from the time and a random part), 0 is an  *)
(* id that no session has, or no id given.                                  *)

SessionLifetime == MaxTime - 1

\* an entry of certificateWorkflowSessions that is not there
NoSession == [step |-> "none", expiresAt |-> 0, merkleRoot |-> EMPTY, deployedAt |-> 0 - 1]

SessionAt(sessions, sessionId) ==
    IF sessionId \in DOMAIN sessions THEN sessions[sessionId] ELSE NoSession

Exists(session) == session.step # "none"

\* new Date() > session.expiresAt
Expired(session, now) == now > session.expiresAt

\* new Date().toISOString() at clock reading `now`
Iso(now) == TimeList[1 + (now % Len(TimeList))]

\* what a handler leaves: the sessions and the response
Handled(sessions, response) == [sessions |-> sessions, response |-> response]

\* POST /api/workflow/parse, for a request with or without a file
workflowParse(sessions, hasFile, sessionId, now) ==
    IF ~hasFile THEN Handled(sessions, Response(400, "File is required", <<>>, <<>>))
    ELSE Handled([sessions EXCEPT ![sessionId] =
                      [step |-> "parsed", expiresAt |-> now + SessionLifetime,
                       merkleRoot |-> EMPTY, deployedAt |-> 0 - 1]],
                 Response(200, "", <<>>, [sessionId |-> sessionId]))

\* POST /api/workflow/process, with the students processStudentData returns
\* for the session's file
workflowProcessSession(sessions, sessionId, processedData, now) ==
    LET session == SessionAt(sessions, sessionId)
        response == workflowProcess(Exists(session) /\ ~Expired(session, now),
                                    processedData, Iso(now))
    IN IF ~response.ok THEN Handled(sessions, response)
       ELSE Handled([sessions EXCEPT ![sessionId] =
                         [@ EXCEPT !.step = "processed",
                                   !.merkleRoot = response.val.merkleRoot]],
                    response)

\* POST /api/workflow/deploy
workflowDeploy(sessions, sessionId, now) ==
    Handled(IF sessionId # 0 /\ Exists(SessionAt(sessions, sessionId))
            THEN [sessions EXCEPT ![sessionId] =
                      [@ EXCEPT !.step = "deployed", !.deployedAt = now]]
            ELSE sessions,
            Response(200, "", <<>>, [message |-> "Certificates deployed to blockchain successfully"]))

\* GET /api/workflow/session/:sessionId
workflowSession(sessions, sessionId, now) ==
    LET session == SessionAt(sessions, sessionId)
    IN IF ~Exists(session)
       THEN Handled(sessions, Response(404, "Session not found", <<>>, <<>>))
       ELSE IF Expired(session, now)
       THEN Handled([sessions EXCEPT ![sessionId] = NoSession],
                    Response(410, "Session expired", <<>>, <<>>))
       ELSE Handled(sessions,
                    Response(200, "", <<>>,
                             [step |-> session.step, merkleRoot |-> session.merkleRoot,
                              expiresAt |-> session.expiresAt]))

\* DELETE /api/workflow/cleanup/:sessionId
workflowCleanup(sessions, sessionId) ==
    Handled(IF Exists(SessionAt(sessions, sessionId))
            THEN [sessions EXCEPT ![sessionId] = NoSession]
            ELSE sessions,
            Response(200, "", <<>>, [message |-> "Session cleaned up successfully"]))

\* the setInterval callback: every expired session is deleted
periodicCleanup(sessions, now) ==
    [sessionId \in DOMAIN sessions |->
        IF Exists(sessions[sessionId]) /\ Expired(sessions[sessionId], now)
        THEN NoSession ELSE sessions[sessionId]]

SessionIds == 0..MaxSessions

\* the students of a session's file: none, one, or two
StudentLists ==
    {<<>>, <<Student(Row(IdList[1], ExampleSubjects))>>,
     <<Student(Row(IdList[1], ExampleSubjects)), Student(Row(IdList[2], ExampleSubjects))>>}

InitWorkflow ==
    /\ cur = [sessions |-> [sessionId \in 1..MaxSessions |-> NoSession],
              created |-> 0, now |-> 0]
    /\ prev = cur
    /\ op = "none"
    /\ args = <<>>
    /\ res = Ok(<<>>)

\* a request handled at the present clock reading
Request(name, a, handled) ==
    /\ op' = name
    /\ args' = a
    /\ res' = handled.response
    /\ cur' = [cur EXCEPT !.sessions = handled.sessions,
                          !.created = IF name = "POST /api/workflow/parse" /\ handled.response.ok
                                      THEN @ + 1 ELSE @]
    /\ prev' = cur

PostParse(hasFile) ==
    /\ cur.created < MaxSessions
    /\ Request("POST /api/workflow/parse", [hasFile |-> hasFile],
               workflowParse(cur.sessions, hasFile, cur.created + 1, cur.now))

PostProcess(sessionId, processedData) ==
    Request("POST /api/workflow/process", [sessionId |-> sessionId],
            workflowProcessSession(cur.sessions, sessionId, processedData, cur.now))

PostDeploy(sessionId) ==
    Request("POST /api/workflow/deploy", [sessionId |-> sessionId],
            workflowDeploy(cur.sessions, sessionId, cur.now))

GetSession(sessionId) ==
    Request("GET /api/workflow/session", [sessionId |-> sessionId],
            workflowSession(cur.sessions, sessionId, cur.now))

DeleteCleanup(sessionId) ==
    Request("DELETE /api/workflow/cleanup", [sessionId |-> sessionId],
            workflowCleanup(cur.sessions, sessionId))

\* the timer fires
PeriodicCleanup ==
    Request("setInterval", <<>>,
            Handled(periodicCleanup(cur.sessions, cur.now), Ok(<<>>)))

\* time passes
Tick ==
    /\ cur.now < MaxTime
    /\ op' = "tick"
    /\ args' = <<>>
    /\ res' = Ok(<<>>)
    /\ cur' = [cur EXCEPT !.now = @ + 1]
    /\ prev' = cur

NextWorkflow ==
    \/ \E hasFile \in BOOLEAN : PostParse(hasFile)
    \/ \E sessionId \in SessionIds, processedData \in StudentLists :
           PostProcess(sessionId, processedData)
    \/ \E sessionId \in SessionIds : PostDeploy(sessionId)
    \/ \E sessionId \in SessionIds : GetSession(sessionId)
    \/ \E sessionId \in SessionIds : DeleteCleanup(sessionId)
    \/ PeriodicCleanup
    \/ Tick

SpecWorkflow == InitWorkflow /\ [][NextWorkflow]_vars

\* C29: in every step, a session becomes 'deployed' only from 'processed',
\* a 'deployed' session does not become 'processed', and a session that
\* had expired when the request came is left as it was or deleted
C29_StepsOnlyForward ==
    \A sessionId \in 1..MaxSessions :
        LET before == prev.sessions[sessionId]
            after == cur.sessions[sessionId]
        IN /\ (after.step = "deployed" /\ before.step # "deployed")
              => before.step = "processed"
           /\ before.step = "deployed" => after.step # "processed"
           /\ (Exists(before) /\ Expired(before, prev.now))
              => (after = before \/ ~Exists(after))

====
